---- MODULE Spec2Model ----
(***************************************************************************)
(* Marker-OCR-API: the extraction work queue, its worker loop and the      *)
(* step tracker of the document jobs.                                      *)
(*                                                                         *)
(*   Spec        submissions, the single extraction_worker, engine         *)
(*               failures, TTL expiry of the Redis keys and cancellation   *)
(*               of the worker task                                        *)
(*   CrashSpec   the same worker with hard crashes and fresh starts,       *)
(*               under weak fairness of the worker's steps                 *)
(*   ReleaseSpec mark_job_complete applied to arbitrary store contents     *)
(***************************************************************************)
EXTENDS Integers, Sequences, FiniteSets, TLC

\* ---------------------------------------------------------------- bounds
MaxJobs == 3
MaxCrashes == 1

Jobs == 1..MaxJobs
NoJob == 0

\* ----------------------------------------------------------------- state
VARIABLES
  store,      \* Redis: lock = extraction:processing, queue = extraction:queue,
              \*        payload = the ids with an extraction:job:{id} key
  record,     \* Execution Store: status of each FlowExecution ("none" = no row)
  stage,      \* position of each submission handler (extract_async / extract_sync)
  wOps,       \* executor operations of the worker run while enqueue_job holds the loop
  wpc,        \* position of extraction_worker
  wjob,       \* job_id / execution_id local of the worker
  wkeys,      \* keys listed by clear_stale_state
  success,    \* success local of the worker
  cancelled,  \* a CancelledError is propagating through the worker's finally
  cancelUsed, \* the worker task has been cancelled
  crashes,    \* number of hard crashes so far
  enqueued,   \* history: ids in the order of their rpush
  dequeued,   \* history: ids in the order get_next_job returned their payloads
  released,   \* history: number of mark_job_complete calls per id
  afterClear, \* history: the ids enqueued after clear_stale_state returned
  enqDuring,  \* history: per id, the job the worker held when the id was pushed
  crashLock,  \* history: the value of the lock when the process last died
  relJob,     \* ReleaseSpec: the job id passed to mark_job_complete
  relCalls,   \* ReleaseSpec: number of calls made
  relFirst,   \* ReleaseSpec: the store after the first call
  relErr,     \* a call of the queue service raised
  now,        \* time.time(), in half milliseconds
  dpc,        \* position of process_document_background
  events,     \* step_callback calls received so far
  steps,      \* its steps_dict, in insertion order
  live,       \* LiveState of the document job: the job:{id} key
  epc,        \* position of process_extraction
  esteps,     \* its steps dict, in insertion order
  esnap,      \* the data process_extraction last handed to store_execution
  errorMessage, \* Execution Store: error_message of each FlowExecution is set
  known,      \* the job:{id} key of the document job exists
  spc,        \* position of stream_job_status
  preReads,   \* get_job calls made before the response starts
  genReads,   \* get_job calls made by the initial loop of event_generator
  last,       \* last_updated_at, last_status, last_steps_hash
  cnt,        \* consecutive_no_change
  ev,         \* what the last step of the stream yielded
  resp,       \* the last response of get_job_status
  cpc,        \* position of each overlapping get_next_job call
  cjob,       \* job_id local of each overlapping get_next_job call
  lpc,        \* position of analyze_ocr_content
  attempt,    \* its loop variable
  ltrace,     \* history: the outcome of each _call_llm_api call, in order
  lres,       \* what analyze_ocr_content returned or raised
  xpc,        \* position of stream_execution_status
  elapsed,    \* its elapsed local
  xev,        \* the event it yielded last
  dones,      \* history: number of events yielded with "done": true
  flowActive  \* the flow of the api_key exists and is active

vars == <<store, record, stage, wOps, wpc, wjob, wkeys, success, cancelled,
          cancelUsed, crashes, enqueued, dequeued, released, afterClear,
          enqDuring, crashLock, relJob, relCalls, relFirst, relErr,
          now, dpc, events, steps, live, epc, esteps, esnap,
          errorMessage, known, spc, preReads, genReads, last, cnt, ev, resp,
          cpc, cjob, lpc, attempt, ltrace, lres, xpc, elapsed, xev, dones,
          flowActive>>

queueVars == <<store, record, stage, wOps, wpc, wjob, wkeys, success, cancelled,
               cancelUsed, crashes, enqueued, dequeued, released, afterClear,
               enqDuring, crashLock, errorMessage>>
relVars == <<relJob, relCalls, relFirst, relErr>>
docVars == <<dpc, events, steps, live>>
extVars == <<epc, esteps, esnap>>
trackVars == <<now, docVars, extVars>>
streamVars == <<known, spc, preReads, genReads, last, cnt, ev>>
llmVars == <<lpc, attempt, ltrace, lres>>
execVars == <<xpc, elapsed, xev, dones, flowActive>>
callVars == <<cpc, cjob, llmVars, execVars>>
restVars == <<streamVars, resp, callVars>>
histVars == <<enqueued, dequeued, released, afterClear, enqDuring, crashLock>>

Range(s) == {s[i] : i \in 1..Len(s)}

EmptyStore == [lock |-> NoJob, queue |-> <<>>, payload |-> {}]

\* ------------------------------------------------- ExtractionQueueService
\* One Redis command each; the service awaits them one after the other.

\* mutant: the lock is not deleted on startup
clear_stale_state_keepLock(s) == s
clear_stale_state_lock(s) == [s EXCEPT !.lock = NoJob]
\* mutant: the queue list is kept on startup
clear_stale_state_keepQueue(s) == s
clear_stale_state_queue(s) == [s EXCEPT !.queue = <<>>]
clear_stale_state_keys(s, keys) == [s EXCEPT !.payload = @ \ keys]

enqueue_job_setex(s, j) == [s EXCEPT !.payload = @ \cup {j}]
\* mutant: lpush instead of rpush
enqueue_job_lpush(s, j) == [s EXCEPT !.queue = <<j>> \o @]
enqueue_job_rpush(s, j) == [s EXCEPT !.queue = Append(@, j)]

\* lpop: the head of the list, NoJob when the list is empty
get_next_job_head(s) == IF s.queue = <<>> THEN NoJob ELSE Head(s.queue)
get_next_job_lpop(s) == IF s.queue = <<>> THEN s ELSE [s EXCEPT !.queue = Tail(@)]
get_next_job_setex(s, j) == [s EXCEPT !.lock = j]

\* delete of a key that does not exist is not an error in Redis
mark_job_complete_lock(s) == [s EXCEPT !.lock = NoJob]
mark_job_complete_data(s, j) == [s EXCEPT !.payload = @ \ {j}]
\* mutant: deleting the lock raises when the key is not there
mark_job_complete_missingKey(s, j) == s.lock = NoJob
mark_job_complete_raises(s, j) == FALSE
mark_job_complete(s, j) == mark_job_complete_data(mark_job_complete_lock(s), j)

\* ------------------------------------------------------------------ Init
\* the step trackers before any job has started
TMin == 3
None == -999

\* Python's None where the other values are strings
NoneStr == "None"

\* job_data of process_document: the LiveState of a new job
JobData(t) ==
  [status |-> "pending", steps |-> <<>>, updated_at |-> t, result |-> NoneStr,
   error |-> NoneStr]

MaxCallers == 2
Callers == 1..MaxCallers

\* no snapshot emitted yet, nothing yielded, no response
NoLast == [updated_at |-> None, status |-> NoneStr, steps_hash |-> <<>>]
NoEvent == [kind |-> "none"]
NoResp == [code |-> 0]

\* no stream, no poll and no second caller of get_next_job
RestIdle ==
  /\ known = TRUE
  /\ spc = "off"
  /\ preReads = 0
  /\ genReads = 0
  /\ last = NoLast
  /\ cnt = 0
  /\ ev = NoEvent
  /\ resp = NoResp
  /\ cpc = [c \in Callers |-> "idle"]
  /\ cjob = [c \in Callers |-> NoJob]
  /\ lpc = "idle"
  /\ attempt = 0
  /\ ltrace = <<>>
  /\ lres = None
  /\ xpc = "off"
  /\ elapsed = 0
  /\ xev = NoEvent
  /\ dones = 0
  /\ flowActive = TRUE

TrackIdle ==
  /\ RestIdle
  /\ now = TMin
  /\ dpc = "off"
  /\ events = 0
  /\ steps = <<>>
  /\ live = JobData(TMin)
  /\ epc = "off"
  /\ esteps = <<>>
  /\ esnap = [steps |-> <<>>, current_step |-> None]

Init ==
  /\ TrackIdle
  /\ store = EmptyStore
  /\ record = [j \in Jobs |-> "none"]
  /\ errorMessage = [j \in Jobs |-> FALSE]
  /\ stage = [j \in Jobs |-> "none"]
  /\ wOps = 0
  /\ wpc = "clear_lock"
  /\ wjob = NoJob
  /\ wkeys = {}
  /\ success = FALSE
  /\ cancelled = FALSE
  /\ cancelUsed = FALSE
  /\ crashes = 0
  /\ enqueued = <<>>
  /\ dequeued = <<>>
  /\ released = [j \in Jobs |-> 0]
  /\ afterClear = {}
  /\ enqDuring = [j \in Jobs |-> NoJob]
  /\ crashLock = NoJob
  /\ relJob = NoJob
  /\ relCalls = 0
  /\ relFirst = EmptyStore
  /\ relErr = FALSE

\* ------------------------------------------------------------ event loop
\* enqueue_job has no await between its setex and its rpush: no other
\* coroutine runs in between, and of the worker only the one Redis command
\* already handed to the executor can.
LoopFree == \A j \in Jobs : stage[j] # "stored"
WorkerMayStep == LoopFree \/ wOps = 0
WorkerStepped == wOps' = IF LoopFree THEN 0 ELSE 1

ClearStates == {"clear_lock", "clear_queue", "clear_list", "clear_del"}
PollStates == {"poll", "sleep", "gnj_pop", "gnj_get", "gnj_set"}
BodyStates == {"b_init", "b_file", "b_proc", "b_ocr", "b_llm", "b_done", "b_redis"}
HandlerStates == {"h_db", "h_redis"}
FinallyStates == {"fin_lock", "fin_data"}
BusyStates == BodyStates \cup HandlerStates \cup FinallyStates
Terminal == {"completed", "failed"}

\* -------------------------------------------- extract_async / extract_sync
\* what extract_async looks at before it creates the execution
Requests ==
  [content_type : {"json", "octet", "other"}, url : BOOLEAN, body : BOOLEAN,
   key_active : BOOLEAN, models_ready : BOOLEAN]

\* the status code of the HTTPException raised for the request, 0 when none
Rejection(req) ==
  IF req.content_type = "json" /\ ~req.url THEN 400
  ELSE IF req.content_type = "octet" /\ ~req.body THEN 400
  ELSE IF req.content_type = "other" THEN 400
  ELSE IF ~req.key_active THEN 404
  ELSE IF ~req.models_ready THEN 503
  ELSE 0

\* mutant: the readiness of the models is tested after create_execution
SubmitReject_afterCreate(j, req) ==
  /\ stage[j] = "none"
  /\ LoopFree
  /\ wpc # "dead"
  /\ Rejection(req) # 0
  /\ record' = IF Rejection(req) = 503 THEN [record EXCEPT ![j] = "pending"] ELSE record
  /\ stage' = [stage EXCEPT ![j] = "rejected"]
  /\ UNCHANGED <<store, wOps, wpc, wjob, wkeys, success, cancelled, cancelUsed,
                 crashes, histVars, errorMessage, relVars,
                 trackVars, restVars>>

\* the request is refused with an HTTPException
SubmitReject(j, req) ==
  /\ stage[j] = "none"
  /\ LoopFree
  /\ wpc # "dead"
  /\ Rejection(req) # 0
  /\ stage' = [stage EXCEPT ![j] = "rejected"]
  /\ UNCHANGED <<store, record, wOps, wpc, wjob, wkeys, success, cancelled,
                 cancelUsed, crashes, histVars, errorMessage, relVars,
                 trackVars, restVars>>

\* mutant: the execution is not committed before enqueue_job is called
SubmitCommit_late(j) ==
  /\ stage[j] = "none"
  /\ LoopFree
  /\ wpc # "dead"
  /\ stage' = [stage EXCEPT ![j] = "committed"]
  /\ UNCHANGED <<store, record, wOps, wpc, wjob, wkeys, success, cancelled,
                 cancelUsed, crashes, histVars, errorMessage, relVars,
                 trackVars, restVars>>

\* create_execution, update_execution(status="pending"), db.commit()
SubmitCommit(j) ==
  /\ stage[j] = "none"
  /\ LoopFree
  /\ wpc # "dead"
  /\ record' = [record EXCEPT ![j] = "pending"]
  /\ stage' = [stage EXCEPT ![j] = "committed"]
  /\ UNCHANGED <<store, wOps, wpc, wjob, wkeys, success, cancelled, cancelUsed,
                 crashes, histVars, errorMessage, relVars,
                 trackVars, restVars>>

\* enqueue_job: setex of the payload
EnqueueSetex(j) ==
  /\ stage[j] = "committed"
  /\ LoopFree
  /\ store' = enqueue_job_setex(store, j)
  /\ stage' = [stage EXCEPT ![j] = "stored"]
  /\ wOps' = 0
  /\ UNCHANGED <<record, wpc, wjob, wkeys, success, cancelled, cancelUsed,
                 crashes, histVars, errorMessage, relVars,
                 trackVars, restVars>>

\* enqueue_job: rpush of the id
EnqueueRpush(j) ==
  /\ stage[j] = "stored"
  /\ store' = enqueue_job_rpush(store, j)
  /\ stage' = [stage EXCEPT ![j] = "queued"]
  /\ wOps' = 0
  /\ enqueued' = Append(enqueued, j)
  /\ afterClear' = IF wpc \in PollStates \cup BusyStates
                     THEN afterClear \cup {j} ELSE afterClear
  /\ enqDuring' = [enqDuring EXCEPT ![j] = IF wpc \in BusyStates THEN wjob ELSE NoJob]
  /\ UNCHANGED <<record, wpc, wjob, wkeys, success, cancelled, cancelUsed,
                 crashes, dequeued, released, crashLock, errorMessage, relVars,
                 trackVars, restVars>>

\* ------------------------------------------------------ extraction_worker
\* clear_stale_state, once, before the loop
ClearLock ==
  /\ wpc = "clear_lock"
  /\ WorkerMayStep /\ WorkerStepped
  /\ store' = clear_stale_state_lock(store)
  /\ wpc' = "clear_queue"
  /\ UNCHANGED <<record, stage, wjob, wkeys, success, cancelled, cancelUsed,
                 crashes, histVars, errorMessage, relVars,
                 trackVars, restVars>>

ClearQueue ==
  /\ wpc = "clear_queue"
  /\ WorkerMayStep /\ WorkerStepped
  /\ store' = clear_stale_state_queue(store)
  /\ wpc' = "clear_list"
  /\ UNCHANGED <<record, stage, wjob, wkeys, success, cancelled, cancelUsed,
                 crashes, histVars, errorMessage, relVars,
                 trackVars, restVars>>

ClearList ==
  /\ wpc = "clear_list"
  /\ WorkerMayStep /\ WorkerStepped
  /\ wkeys' = store.payload
  /\ wpc' = "clear_del"
  /\ UNCHANGED <<store, record, stage, wjob, success, cancelled, cancelUsed,
                 crashes, histVars, errorMessage, relVars,
                 trackVars, restVars>>

ClearDel ==
  /\ wpc = "clear_del"
  /\ WorkerMayStep /\ WorkerStepped
  /\ store' = clear_stale_state_keys(store, wkeys)
  /\ wkeys' = {}
  /\ wpc' = "poll"
  /\ UNCHANGED <<record, stage, wjob, success, cancelled, cancelUsed,
                 crashes, histVars, errorMessage, relVars,
                 trackVars, restVars>>

\* get_next_job: get of the lock; None when a job is processing
GnjCheck ==
  /\ wpc = "poll"
  /\ WorkerMayStep /\ WorkerStepped
  /\ wpc' = IF store.lock # NoJob THEN "sleep" ELSE "gnj_pop"
  /\ UNCHANGED <<store, record, stage, wjob, wkeys, success, cancelled,
                 cancelUsed, crashes, histVars, errorMessage, relVars,
                 trackVars, restVars>>

\* get_next_job: lpop; None when the list is empty
GnjPop ==
  /\ wpc = "gnj_pop"
  /\ WorkerMayStep /\ WorkerStepped
  /\ wjob' = get_next_job_head(store)
  /\ store' = get_next_job_lpop(store)
  /\ wpc' = IF wjob' = NoJob THEN "sleep" ELSE "gnj_get"
  /\ UNCHANGED <<record, stage, wkeys, success, cancelled, cancelUsed,
                 crashes, histVars, errorMessage, relVars,
                 trackVars, restVars>>

\* get_next_job: get of the payload; None when it is not found
GnjGet ==
  /\ wpc = "gnj_get"
  /\ WorkerMayStep /\ WorkerStepped
  /\ IF wjob \in store.payload
       THEN wpc' = "gnj_set" /\ wjob' = wjob
       ELSE wpc' = "sleep" /\ wjob' = NoJob
  /\ UNCHANGED <<store, record, stage, wkeys, success, cancelled, cancelUsed,
                 crashes, histVars, errorMessage, relVars,
                 trackVars, restVars>>

\* get_next_job: setex of the lock, return of the payload; the worker sets
\* success = False and enters process_queued_extraction
GnjSet ==
  /\ wpc = "gnj_set"
  /\ WorkerMayStep /\ WorkerStepped
  /\ store' = get_next_job_setex(store, wjob)
  /\ dequeued' = Append(dequeued, wjob)
  /\ success' = FALSE
  /\ wpc' = "b_init"
  /\ UNCHANGED <<record, stage, wjob, wkeys, cancelled, cancelUsed, crashes,
                 enqueued, released, afterClear, enqDuring, crashLock, errorMessage, relVars,
                 trackVars, restVars>>

\* mutant: the idle worker clears the stale state again
Sleep_clearAgain ==
  /\ wpc = "sleep"
  /\ WorkerMayStep /\ WorkerStepped
  /\ wpc' = "clear_lock"
  /\ UNCHANGED <<store, record, stage, wjob, wkeys, success, cancelled,
                 cancelUsed, crashes, histVars, errorMessage, relVars,
                 trackVars, restVars>>

\* asyncio.sleep(0.5); continue
Sleep ==
  /\ wpc = "sleep"
  /\ WorkerMayStep /\ WorkerStepped
  /\ wpc' = "poll"
  /\ UNCHANGED <<store, record, stage, wjob, wkeys, success, cancelled,
                 cancelUsed, crashes, histVars, errorMessage, relVars,
                 trackVars, restVars>>

\* ---------------------------------------------- process_queued_extraction
\* A step of the try block that returns normally.
BodyNext(pc) ==
  CASE pc = "b_init" -> "b_file"
    [] pc = "b_file" -> "b_proc"
    [] pc = "b_proc" -> "b_ocr"
    [] pc = "b_ocr" -> "b_llm"
    [] pc = "b_llm" -> "b_done"
    [] pc = "b_done" -> "b_redis"
    [] OTHER -> "return"

\* update_execution on an execution that get_execution found
update_execution(rec, j, status) ==
  IF rec[j] = "none" THEN rec ELSE [rec EXCEPT ![j] = status]

\* The calls that may raise: redis_service.store_execution, the file
\* retrieval, parse_document, analyze_ocr_content, redis_service.update_execution
Fallible == {"b_init", "b_file", "b_ocr", "b_llm", "b_redis"}

\* the worker's finally: mark_job_complete(execution_id, success) is called
EnterFinally ==
  /\ wpc' = "fin_lock"
  /\ released' = [released EXCEPT ![wjob] = @ + 1]

\* store_execution, file retrieval, OCR, LLM call or the final Redis update
\* returns normally
BodyStep ==
  /\ wpc \in Fallible
  /\ WorkerMayStep /\ WorkerStepped
  /\ IF BodyNext(wpc) = "return"
       THEN success' = TRUE /\ EnterFinally
       ELSE wpc' = BodyNext(wpc) /\ UNCHANGED <<success, released>>
  /\ UNCHANGED <<store, record, stage, wjob, wkeys, cancelled, cancelUsed,
                 crashes, enqueued, dequeued, afterClear, enqDuring, crashLock,
                 errorMessage, relVars,
                 trackVars, restVars>>

\* update_execution(status="processing"); db.commit()
BodyProcessing ==
  /\ wpc = "b_proc"
  /\ WorkerMayStep /\ WorkerStepped
  /\ record' = update_execution(record, wjob, "processing")
  /\ wpc' = BodyNext(wpc)
  /\ UNCHANGED <<store, stage, wjob, wkeys, success, cancelled, cancelUsed,
                 crashes, histVars, errorMessage, relVars,
                 trackVars, restVars>>

\* mutant: the completed status is not written
BodyCompleted_noWrite ==
  /\ wpc = "b_done"
  /\ WorkerMayStep /\ WorkerStepped
  /\ wpc' = BodyNext(wpc)
  /\ UNCHANGED <<store, record, stage, wjob, wkeys, success, cancelled,
                 cancelUsed, crashes, histVars, errorMessage, relVars,
                 trackVars, restVars>>

\* update_execution(status="completed"); db.commit()
BodyCompleted ==
  /\ wpc = "b_done"
  /\ WorkerMayStep /\ WorkerStepped
  /\ record' = update_execution(record, wjob, "completed")
  /\ wpc' = BodyNext(wpc)
  /\ UNCHANGED <<store, stage, wjob, wkeys, success, cancelled, cancelUsed,
                 crashes, histVars, errorMessage, relVars,
                 trackVars, restVars>>

\* a fallible call raises: control moves to "except Exception as e"
BodyRaise ==
  /\ wpc \in Fallible
  /\ WorkerMayStep /\ WorkerStepped
  /\ wpc' = "h_db"
  /\ UNCHANGED <<store, record, stage, wjob, wkeys, success, cancelled,
                 cancelUsed, crashes, histVars, errorMessage, relVars,
                 trackVars, restVars>>

\* mutant: the failed status is not written
HandlerDb_noWrite ==
  /\ wpc = "h_db"
  /\ WorkerMayStep /\ WorkerStepped
  /\ wpc' = "h_redis"
  /\ UNCHANGED <<store, record, stage, wjob, wkeys, success, cancelled,
                 cancelUsed, crashes, histVars, errorMessage, relVars,
                 trackVars, restVars>>

\* except: update_execution(status="failed"); db.commit()
HandlerDb ==
  /\ wpc = "h_db"
  /\ WorkerMayStep /\ WorkerStepped
  /\ record' = update_execution(record, wjob, "failed")
  /\ errorMessage' = IF record[wjob] = "none" THEN errorMessage
                                               ELSE [errorMessage EXCEPT ![wjob] = TRUE]
  /\ wpc' = "h_redis"
  /\ UNCHANGED <<store, stage, wjob, wkeys, success, cancelled, cancelUsed,
                 crashes, histVars, relVars, trackVars, restVars>>

\* mutant: the handler raises again and the exception ends the worker loop
HandlerRedis_reraise ==
  /\ wpc = "h_redis"
  /\ WorkerMayStep /\ WorkerStepped
  /\ wpc' = "stopped"
  /\ UNCHANGED <<store, record, stage, wjob, wkeys, success, cancelled,
                 cancelUsed, crashes, histVars, errorMessage, relVars,
                 trackVars, restVars>>

\* except: redis_service.update_execution, its own failure is only logged;
\* the function returns normally and the worker sets success = True
HandlerRedis ==
  /\ wpc = "h_redis"
  /\ WorkerMayStep /\ WorkerStepped
  /\ success' = TRUE
  /\ EnterFinally
  /\ UNCHANGED <<store, record, stage, wjob, wkeys, cancelled, cancelUsed,
                 crashes, enqueued, dequeued, afterClear, enqDuring, crashLock,
                 errorMessage, relVars,
                 trackVars, restVars>>

\* mutant: mark_job_complete leaves the lock in place
FinLock_noDelete ==
  /\ wpc = "fin_lock"
  /\ WorkerMayStep /\ WorkerStepped
  /\ wpc' = "fin_data"
  /\ UNCHANGED <<store, record, stage, wjob, wkeys, success, cancelled,
                 cancelUsed, crashes, histVars, errorMessage, relVars,
                 trackVars, restVars>>

\* mark_job_complete: delete of the lock
FinLock ==
  /\ wpc = "fin_lock"
  /\ WorkerMayStep /\ WorkerStepped
  /\ store' = mark_job_complete_lock(store)
  /\ wpc' = "fin_data"
  /\ UNCHANGED <<record, stage, wjob, wkeys, success, cancelled, cancelUsed,
                 crashes, histVars, errorMessage, relVars,
                 trackVars, restVars>>

\* mark_job_complete: delete of the payload; then the next iteration of the
\* loop, or "except asyncio.CancelledError: break"
FinData ==
  /\ wpc = "fin_data"
  /\ WorkerMayStep /\ WorkerStepped
  /\ store' = mark_job_complete_data(store, wjob)
  /\ wpc' = IF cancelled THEN "stopped" ELSE "poll"
  /\ wjob' = NoJob
  /\ cancelled' = FALSE
  /\ UNCHANGED <<record, stage, wkeys, success, cancelUsed, crashes, histVars,
                 errorMessage, relVars,
                 trackVars, restVars>>

\* mutant: the CancelledError leaves the loop without the finally
Cancel_breaks ==
  /\ ~cancelUsed
  /\ wpc \notin {"stopped", "dead"}
  /\ LoopFree
  /\ cancelUsed' = TRUE
  /\ cancelled' = FALSE
  /\ wpc' = "stopped"
  /\ wjob' = NoJob
  /\ UNCHANGED <<store, record, stage, wOps, wkeys, success, crashes,
                 enqueued, dequeued, released, afterClear, enqDuring, crashLock,
                 errorMessage, relVars, trackVars, restVars>>

\* The worker task is cancelled at the await it is suspended on.  In the job
\* body the CancelledError passes "except Exception" and runs the finally;
\* anywhere else it ends the task.
Cancel ==
  /\ ~cancelUsed
  /\ wpc \notin {"stopped", "dead"}
  /\ LoopFree
  /\ cancelUsed' = TRUE
  /\ IF wpc \in BodyStates \cup HandlerStates
       THEN cancelled' = TRUE /\ EnterFinally /\ UNCHANGED wjob
       ELSE cancelled' = FALSE /\ wpc' = "stopped" /\ wjob' = NoJob
                               /\ UNCHANGED released
  /\ UNCHANGED <<store, record, stage, wOps, wkeys, success, crashes,
                 enqueued, dequeued, afterClear, enqDuring, crashLock, errorMessage, relVars,
                 trackVars, restVars>>

\* ----------------------------------------------------------------- Redis
\* mutant: when the lock expires the running job is dropped and the worker
\* polls again
ExpireLock_dropsJob ==
  /\ store.lock # NoJob
  /\ store' = [store EXCEPT !.lock = NoJob]
  /\ wpc' = IF wpc \in BodyStates \cup HandlerStates THEN "poll" ELSE wpc
  /\ wjob' = IF wpc \in BodyStates \cup HandlerStates THEN NoJob ELSE wjob
  /\ UNCHANGED <<record, stage, wOps, wkeys, success, cancelled,
                 cancelUsed, crashes, histVars, errorMessage, relVars,
                 trackVars, restVars>>

\* the TTL (LOCK_TIMEOUT) of extraction:processing runs out
ExpireLock ==
  /\ store.lock # NoJob
  /\ store' = [store EXCEPT !.lock = NoJob]
  /\ UNCHANGED <<record, stage, wOps, wpc, wjob, wkeys, success, cancelled,
                 cancelUsed, crashes, histVars, errorMessage, relVars,
                 trackVars, restVars>>

\* the TTL of an extraction:job:{id} key runs out
ExpirePayload(j) ==
  /\ j \in store.payload
  /\ stage[j] = "queued"
  /\ store' = [store EXCEPT !.payload = @ \ {j}]
  /\ UNCHANGED <<record, stage, wOps, wpc, wjob, wkeys, success, cancelled,
                 cancelUsed, crashes, histVars, errorMessage, relVars,
                 trackVars, restVars>>

\* ------------------------------------------------------- crash and restart
\* The process dies: the worker and the request handlers stop where they are.
Crash ==
  /\ crashes < MaxCrashes
  /\ wpc # "dead"
  /\ crashes' = crashes + 1
  /\ wpc' = "dead"
  /\ stage' = [j \in Jobs |-> IF stage[j] \in {"committed", "stored"}
                                THEN "aborted" ELSE stage[j]]
  /\ wOps' = 0
  /\ wjob' = NoJob
  /\ wkeys' = {}
  /\ cancelled' = FALSE
  /\ afterClear' = {}
  /\ crashLock' = store.lock
  /\ UNCHANGED <<store, record, success, cancelUsed, enqueued, dequeued,
                 released, enqDuring, errorMessage, relVars,
                 trackVars, restVars>>

\* A fresh process starts extraction_worker.
Restart ==
  /\ wpc = "dead"
  /\ wpc' = "clear_lock"
  /\ UNCHANGED <<store, record, stage, wOps, wjob, wkeys, success, cancelled,
                 cancelUsed, crashes, histVars, errorMessage, relVars,
                 trackVars, restVars>>

\* ------------------------------------------------------------------ Next
Submission == \E j \in Jobs : SubmitCommit(j) \/ EnqueueSetex(j) \/ EnqueueRpush(j)

clear_stale_state == ClearLock \/ ClearQueue \/ ClearList \/ ClearDel

get_next_job == GnjCheck \/ GnjPop \/ GnjGet \/ GnjSet

process_queued_extraction ==
  BodyStep \/ BodyProcessing \/ BodyCompleted \/ BodyRaise \/ HandlerDb \/ HandlerRedis

extraction_worker ==
  clear_stale_state \/ get_next_job \/ Sleep \/ process_queued_extraction
    \/ FinLock \/ FinData

Expiry == ExpireLock \/ \E j \in Jobs : ExpirePayload(j)

Next == Submission \/ extraction_worker \/ Cancel \/ Expiry

Spec == Init /\ [][Next]_vars

CrashNext == Submission \/ extraction_worker \/ Crash \/ Restart

\* The worker coroutine is scheduled again after every await, and enqueue_job
\* runs from its setex to its rpush without suspending.
CrashSpec ==
  /\ Init /\ [][CrashNext]_vars
  /\ WF_vars(extraction_worker)
  /\ WF_vars(\E j \in Jobs : EnqueueRpush(j))

\* ------------------------------------------------------------ NoLossSpec
\* The worker in its loop, clear_stale_state done, never cancelled and the
\* process never dying; the payload keys keep their TTL of 3600 seconds.
worker_loop ==
  get_next_job \/ Sleep \/ process_queued_extraction \/ FinLock \/ FinData

NoLossInit ==
  /\ TrackIdle
  /\ store = EmptyStore
  /\ record = [j \in Jobs |-> "none"]
  /\ errorMessage = [j \in Jobs |-> FALSE]
  /\ stage = [j \in Jobs |-> "none"]
  /\ wOps = 0
  /\ wpc = "poll"
  /\ wjob = NoJob
  /\ wkeys = {}
  /\ success = FALSE
  /\ cancelled = FALSE
  /\ cancelUsed = FALSE
  /\ crashes = 0
  /\ enqueued = <<>>
  /\ dequeued = <<>>
  /\ released = [j \in Jobs |-> 0]
  /\ afterClear = {}
  /\ enqDuring = [j \in Jobs |-> NoJob]
  /\ crashLock = NoJob
  /\ relJob = NoJob
  /\ relCalls = 0
  /\ relFirst = EmptyStore
  /\ relErr = FALSE

NoLossNext == Submission \/ worker_loop \/ \E j \in Jobs : ExpirePayload(j)

\* The worker coroutine is scheduled again after every await, and enqueue_job
\* runs from its setex to its rpush without suspending.
NoLossSpec ==
  /\ NoLossInit /\ [][NoLossNext]_vars
  /\ WF_vars(worker_loop)
  /\ WF_vars(\E j \in Jobs : EnqueueRpush(j))

\* ---------------------------------------------------------- StoreErrSpec
\* The worker with a Shared Store that may refuse any command of
\* get_next_job and of mark_job_complete.

\* mutant: an exception of get_next_job ends the worker
GnjRaise_dies ==
  /\ wpc \in {"poll", "gnj_pop", "gnj_get", "gnj_set"}
  /\ WorkerMayStep /\ WorkerStepped
  /\ wpc' = "stopped"
  /\ wjob' = NoJob
  /\ relErr' = TRUE
  /\ UNCHANGED <<store, record, stage, wkeys, success, cancelled, cancelUsed,
                 crashes, histVars, errorMessage, relJob, relCalls, relFirst,
                 trackVars, restVars>>

\* a Redis command of get_next_job raises: "except Exception" of the loop
\* logs it, sleeps and goes to the next iteration
GnjRaise ==
  /\ wpc \in {"poll", "gnj_pop", "gnj_get", "gnj_set"}
  /\ WorkerMayStep /\ WorkerStepped
  /\ wpc' = "sleep"
  /\ wjob' = NoJob
  /\ relErr' = TRUE
  /\ UNCHANGED <<store, record, stage, wkeys, success, cancelled, cancelUsed,
                 crashes, histVars, errorMessage, relJob, relCalls, relFirst,
                 trackVars, restVars>>

\* a Redis command of mark_job_complete raises: the except of the finally
\* logs it; then the next iteration, or the pending CancelledError
FinRaise ==
  /\ wpc \in FinallyStates
  /\ WorkerMayStep /\ WorkerStepped
  /\ wpc' = IF cancelled THEN "stopped" ELSE "poll"
  /\ wjob' = NoJob
  /\ cancelled' = FALSE
  /\ relErr' = TRUE
  /\ UNCHANGED <<store, record, stage, wkeys, success, cancelUsed, crashes,
                 histVars, errorMessage, relJob, relCalls, relFirst,
                 trackVars, restVars>>

\* the jobs submitted while the store fails
MaxErrJobs == 2

StoreErrNext ==
  \/ \E j \in 1..MaxErrJobs : SubmitCommit(j) \/ EnqueueSetex(j) \/ EnqueueRpush(j)
  \/ extraction_worker
  \/ Cancel
  \/ GnjRaise
  \/ FinRaise

StoreErrSpec == Init /\ [][StoreErrNext]_vars

\* --------------------------------------------------------------- LlmSpec
\* LLMService.analyze_ocr_content: the retry loop around _call_llm_api
max_retries == 3

\* the exceptions _call_llm_api may raise; 0 stands for its result
MaxErrKinds == 4
LlmErrors == 1..MaxErrKinds
LlmResult == 0

\* mutant: the error of the first call is raised
Reraised_first(trace) == trace[1]

\* "raise" in the except arm: the exception being handled
Reraised(trace) == trace[Len(trace)]

LlmUnchanged ==
  UNCHANGED <<queueVars, relVars, trackVars, streamVars, resp, cpc, cjob, execVars>>

\* analyze_ocr_content is called: the prompt is built, the loop starts
LlmStart ==
  /\ lpc = "idle"
  /\ lpc' = "call"
  /\ attempt' = 0
  /\ UNCHANGED <<ltrace, lres>>
  /\ LlmUnchanged

\* _call_llm_api returns: the result is returned at once
LlmCallOk ==
  /\ lpc = "call"
  /\ ltrace' = Append(ltrace, LlmResult)
  /\ lres' = LlmResult
  /\ lpc' = "returned"
  /\ UNCHANGED attempt
  /\ LlmUnchanged

\* _call_llm_api raises e: logged; raised again on the last attempt
LlmCallFail(e) ==
  /\ lpc = "call"
  /\ ltrace' = Append(ltrace, e)
  /\ IF attempt = max_retries - 1
       THEN lpc' = "raised" /\ lres' = Reraised(ltrace') /\ UNCHANGED attempt
       ELSE lpc' = "call" /\ attempt' = attempt + 1 /\ UNCHANGED lres
  /\ LlmUnchanged

LlmNext == LlmStart \/ LlmCallOk \/ \E e \in LlmErrors : LlmCallFail(e)

LlmSpec == Init /\ [][LlmNext]_vars

\* ------------------------------------------------------------ SubmitSpec
\* the requests to extract_async, accepted or refused, without the worker
SubmitNext ==
  \E j \in Jobs :
    \/ \E req \in Requests : SubmitReject(j, req)
    \/ \E req \in Requests : Rejection(req) = 0 /\ SubmitCommit(j)
    \/ EnqueueSetex(j)
    \/ EnqueueRpush(j)

SubmitInit ==
  /\ TrackIdle
  /\ store = EmptyStore
  /\ record = [j \in Jobs |-> "none"]
  /\ errorMessage = [j \in Jobs |-> FALSE]
  /\ stage = [j \in Jobs |-> "none"]
  /\ wOps = 0
  /\ wpc = "stopped"
  /\ wjob = NoJob
  /\ wkeys = {}
  /\ success = FALSE
  /\ cancelled = FALSE
  /\ cancelUsed = TRUE
  /\ crashes = 0
  /\ enqueued = <<>>
  /\ dequeued = <<>>
  /\ released = [j \in Jobs |-> 0]
  /\ afterClear = {}
  /\ enqDuring = [j \in Jobs |-> NoJob]
  /\ crashLock = NoJob
  /\ relJob = NoJob
  /\ relCalls = 0
  /\ relFirst = EmptyStore
  /\ relErr = FALSE

SubmitSpec == SubmitInit /\ [][SubmitNext]_vars

\* ----------------------------------------------------------- ReleaseSpec
\* mark_job_complete called twice in a row for one job id, from any content
\* of the store.
MaxQueueLen == 2

QueueContents == UNION {[1..n -> Jobs] : n \in 0..MaxQueueLen}

ReleaseInit ==
  /\ TrackIdle
  /\ store \in [lock : Jobs \cup {NoJob}, queue : QueueContents, payload : SUBSET Jobs]
  /\ record = [j \in Jobs |-> "none"]
  /\ errorMessage = [j \in Jobs |-> FALSE]
  /\ stage = [j \in Jobs |-> "none"]
  /\ wOps = 0
  /\ wpc = "stopped"
  /\ wjob = NoJob
  /\ wkeys = {}
  /\ success = FALSE
  /\ cancelled = FALSE
  /\ cancelUsed = TRUE
  /\ crashes = 0
  /\ enqueued = <<>>
  /\ dequeued = <<>>
  /\ released = [j \in Jobs |-> 0]
  /\ afterClear = {}
  /\ enqDuring = [j \in Jobs |-> NoJob]
  /\ crashLock = NoJob
  /\ relJob = NoJob
  /\ relCalls = 0
  /\ relFirst = EmptyStore
  /\ relErr = FALSE

Release(j) ==
  /\ relCalls < 2
  /\ relCalls = 1 => j = relJob
  /\ relJob' = j
  /\ relCalls' = relCalls + 1
  /\ relErr' = (relErr \/ mark_job_complete_raises(store, j))
  /\ store' = mark_job_complete(store, j)
  /\ relFirst' = IF relCalls = 0 THEN store' ELSE relFirst
  /\ UNCHANGED <<record, stage, wOps, wpc, wjob, wkeys, success, cancelled,
                 cancelUsed, crashes, histVars, errorMessage,
                 trackVars, restVars>>

ReleaseNext == \E j \in Jobs : Release(j)

ReleaseSpec == ReleaseInit /\ [][ReleaseNext]_vars

\* ----------------------------------------------------------- DequeueSpec
\* get_next_job called by several coroutines at once, from any content of
\* the store: each call runs its four Redis operations in the executor and
\* is suspended between them.
CallVarsUnchanged ==
  UNCHANGED <<record, stage, wOps, wpc, wjob, wkeys, success, cancelled,
              cancelUsed, crashes, histVars, errorMessage, relVars, trackVars,
              streamVars, resp, llmVars, execVars>>

\* get of the lock
CallCheck(c) ==
  /\ cpc[c] = "idle"
  /\ cpc' = [cpc EXCEPT ![c] = IF store.lock # NoJob THEN "none" ELSE "pop"]
  /\ UNCHANGED <<store, cjob>>
  /\ CallVarsUnchanged

\* lpop of the queue
CallPop(c) ==
  /\ cpc[c] = "pop"
  /\ cjob' = [cjob EXCEPT ![c] = get_next_job_head(store)]
  /\ store' = get_next_job_lpop(store)
  /\ cpc' = [cpc EXCEPT ![c] = IF cjob'[c] = NoJob THEN "none" ELSE "get"]
  /\ CallVarsUnchanged

\* get of the payload
CallGet(c) ==
  /\ cpc[c] = "get"
  /\ cpc' = [cpc EXCEPT ![c] = IF cjob[c] \in store.payload THEN "set" ELSE "none"]
  /\ cjob' = [cjob EXCEPT ![c] = IF cjob[c] \in store.payload THEN @ ELSE NoJob]
  /\ UNCHANGED store
  /\ CallVarsUnchanged

\* setex of the lock, return of the payload
CallSet(c) ==
  /\ cpc[c] = "set"
  /\ store' = get_next_job_setex(store, cjob[c])
  /\ cpc' = [cpc EXCEPT ![c] = "returned"]
  /\ UNCHANGED cjob
  /\ CallVarsUnchanged

DequeueInit ==
  /\ ReleaseInit
  /\ store.lock = NoJob
  /\ \A i \in 1..Len(store.queue) : store.queue[i] \in store.payload
  /\ \A i, k \in 1..Len(store.queue) : i # k => store.queue[i] # store.queue[k]

DequeueNext == \E c \in Callers : CallCheck(c) \/ CallPop(c) \/ CallGet(c) \/ CallSet(c)

DequeueSpec == DequeueInit /\ [][DequeueNext]_vars

\* ---------------------------------------------------------- QueueOpsSpec
\* The queue service used by one caller, in any order of enqueue_job,
\* get_next_job and mark_job_complete, an id being enqueued as often as the
\* caller likes.

\* enqueue_job(job_data): setex and rpush without an await in between
SvcEnqueue(j) ==
  /\ Len(store.queue) < MaxQueueLen
  /\ store' = enqueue_job_rpush(enqueue_job_setex(store, j), j)
  /\ UNCHANGED <<cpc, cjob>>
  /\ CallVarsUnchanged

\* get_next_job returned None
SvcNone(c) ==
  /\ cpc[c] = "none"
  /\ cpc' = [cpc EXCEPT ![c] = "idle"]
  /\ cjob' = [cjob EXCEPT ![c] = NoJob]
  /\ UNCHANGED store
  /\ CallVarsUnchanged

\* mark_job_complete(job_id) for the job that get_next_job returned
SvcComplete(c) ==
  /\ cpc[c] = "returned"
  /\ store' = mark_job_complete(store, cjob[c])
  /\ cpc' = [cpc EXCEPT ![c] = "idle"]
  /\ cjob' = [cjob EXCEPT ![c] = NoJob]
  /\ CallVarsUnchanged

QueueOpsNext ==
  \/ \E j \in Jobs : SvcEnqueue(j)
  \/ CallCheck(1) \/ CallPop(1) \/ CallGet(1) \/ CallSet(1)
  \/ SvcNone(1)
  \/ SvcComplete(1)

\* the service on an empty store
QueueOpsInit == ReleaseInit /\ store = EmptyStore

QueueOpsSpec == QueueOpsInit /\ [][QueueOpsNext]_vars

\* ------------------------------------------------------------- ClearSpec
\* clear_stale_state alone, from any content of the store and any records
ClearInit ==
  /\ TrackIdle
  /\ store \in [lock : Jobs \cup {NoJob}, queue : QueueContents, payload : SUBSET Jobs]
  /\ record \in [Jobs -> {"pending", "completed"}]
  /\ errorMessage = [j \in Jobs |-> FALSE]
  /\ stage = [j \in Jobs |-> "none"]
  /\ wOps = 0
  /\ wpc = "clear_lock"
  /\ wjob = NoJob
  /\ wkeys = {}
  /\ success = FALSE
  /\ cancelled = FALSE
  /\ cancelUsed = TRUE
  /\ crashes = 0
  /\ enqueued = <<>>
  /\ dequeued = <<>>
  /\ released = [j \in Jobs |-> 0]
  /\ afterClear = {}
  /\ enqDuring = [j \in Jobs |-> NoJob]
  /\ crashLock = store.lock
  /\ relJob = NoJob
  /\ relCalls = 0
  /\ relFirst = EmptyStore
  /\ relErr = FALSE

ClearNext == ClearLock \/ ClearQueue \/ ClearList \/ ClearDel

ClearSpec == ClearInit /\ [][ClearNext]_vars

\* ------------------------------------------ steps and sub-steps (models)
\* Times are in half milliseconds: Epsilon is the 0.001 s floor, the
\* threshold of a small sub-step is 0.01 s.  None is Python's None.
MaxTicks == 1
MaxSteps == 2
MaxEvents == 4
MaxSubs == 2
MaxParserSteps == 1

Epsilon == 2
SMALL_STEP_THRESHOLD == 20
MACRO_STEP_NAME == 0
OcrStep == 1
ocr_sub_steps == <<1>>

StepNames == 1..MaxSteps
SubNames == 1..MaxSubs
\* the instants at which the clock is read: a few just after the start and
\* one a threshold later
Times ==
  {TMin + k : k \in 0..MaxTicks} \cup {TMin + SMALL_STEP_THRESHOLD}
MaxTime == TMin + SMALL_STEP_THRESHOLD

\* "if x:" on an Optional[float]
Truthy(x) == x # None /\ x # 0
Max(a, b) == IF a >= b THEN a ELSE b

SubStep(name, status, start, end, dur) ==
  [name |-> name, status |-> status, start_time |-> start, end_time |-> end,
   duration |-> dur]

ProcessingStep(name, subs) ==
  [name |-> name, status |-> "pending", start_time |-> None, end_time |-> None,
   duration |-> None, sub_steps_detailed |-> subs]

create_step(name, sub_steps_list) ==
  ProcessingStep(name, [i \in 1..Len(sub_steps_list) |->
                          SubStep(sub_steps_list[i], "pending", None, None, None)])

\* ProcessingStep.start / complete / fail
start(step, t) == [step EXCEPT !.status = "in_progress", !.start_time = t]
complete(step, t) ==
  [step EXCEPT !.status = "completed", !.end_time = t,
               !.duration = IF Truthy(step.start_time) THEN t - step.start_time ELSE @]
fail(step, t) ==
  [step EXCEPT !.status = "failed", !.end_time = t,
               !.duration = IF Truthy(step.start_time) THEN t - step.start_time ELSE @]

\* index of the first element with this name, 0 when there is none
FirstIdx(seq, name) ==
  IF \E i \in 1..Len(seq) : seq[i].name = name
    THEN CHOOSE i \in 1..Len(seq) :
           seq[i].name = name /\ \A k \in 1..(i - 1) : seq[k].name # name
    ELSE 0

\* sub_step event carrying (sub_step_name, end_timestamp)
CompleteSubAt(sub, ts) ==
  CASE sub.status = "in_progress" ->
         IF Truthy(sub.start_time)
           THEN LET st == IF ts < sub.start_time THEN ts - Epsilon ELSE sub.start_time
                IN  [sub EXCEPT !.status = "completed", !.start_time = st,
                                !.end_time = ts, !.duration = Max(Epsilon, ts - st)]
           ELSE [sub EXCEPT !.status = "completed", !.start_time = ts - Epsilon,
                            !.end_time = ts, !.duration = Epsilon]
    [] sub.status = "pending" ->
         [sub EXCEPT !.status = "completed", !.start_time = ts - Epsilon,
                     !.end_time = ts, !.duration = Epsilon]
    [] sub.status = "completed" ->
         IF (sub.end_time = None \/ ts > sub.end_time)
              /\ Truthy(sub.start_time) /\ ts >= sub.start_time
           THEN [sub EXCEPT !.end_time = ts,
                            !.duration = Max(Epsilon, ts - sub.start_time)]
           ELSE sub
    [] OTHER -> sub

SubStepTuple(step, name, ts) ==
  LET i == FirstIdx(step.sub_steps_detailed, name)
  IN  IF i = 0 THEN step
      ELSE [step EXCEPT !.sub_steps_detailed[i] = CompleteSubAt(@, ts)]

\* mutant: the sibling in progress is left as it is
ForceComplete_skip(sub, t) == sub

\* the previous in-progress sub-step is completed at current_time
ForceComplete(sub, t) ==
  IF sub.status # "in_progress" THEN sub
  ELSE IF Truthy(sub.start_time)
    THEN IF t >= sub.start_time
           THEN [sub EXCEPT !.status = "completed", !.end_time = t,
                            !.duration = t - sub.start_time]
           ELSE [sub EXCEPT !.status = "completed", !.end_time = t,
                            !.start_time = t - Epsilon, !.duration = Epsilon]
    ELSE [sub EXCEPT !.status = "completed", !.end_time = t,
                     !.start_time = t - Epsilon, !.duration = Epsilon]

\* mutant: naming a sub-step replaces the list of sub-steps
SubStepNamed_dropSiblings(step, name, t) ==
  [step EXCEPT !.sub_steps_detailed = <<SubStep(name, "in_progress", t, None, None)>>]

\* sub_step event carrying a sub-step name
SubStepNamed(step, name, t) ==
  LET subs == step.sub_steps_detailed
      done == [i \in 1..Len(subs) |-> ForceComplete(subs[i], t)]
      i == FirstIdx(done, name)
  IN  [step EXCEPT !.sub_steps_detailed =
         IF i = 0
           THEN Append(done, SubStep(name, "in_progress", t, None, None))
           ELSE IF done[i].status \in {"pending", "completed"}
                  THEN [done EXCEPT ![i] = [@ EXCEPT !.status = "in_progress",
                                                     !.start_time = t,
                                                     !.end_time = None,
                                                     !.duration = None]]
                  ELSE done]

RECURSIVE SumDurations(_)
SumDurations(subs) ==
  IF subs = <<>> THEN 0
  ELSE (IF Head(subs).duration # None THEN Head(subs).duration ELSE 0)
         + SumDurations(Tail(subs))

\* the third argument of step_callback: nothing, a timestamp, a sub-step
\* name, or (sub-step name, end timestamp)
IsNumber(arg) == arg.kind = "num"

\* branch "in_progress" of step_callback
StartStep(step, arg, t) ==
  IF IsNumber(arg) /\ arg.ts # 0
    THEN [step EXCEPT !.status = "in_progress", !.start_time = arg.ts]
    ELSE start(step, t)

\* in-progress sub-steps are completed when their step completes
CompleteSubOfStep(sub, ct) ==
  IF sub.status # "in_progress" THEN sub
  ELSE IF Truthy(sub.start_time)
    THEN LET st == IF ct < sub.start_time THEN ct - Epsilon ELSE sub.start_time
         IN  [sub EXCEPT !.status = "completed", !.start_time = st,
                         !.end_time = ct, !.duration = Max(Epsilon, ct - st)]
    ELSE [sub EXCEPT !.status = "completed", !.start_time = ct - Epsilon,
                     !.end_time = ct, !.duration = Epsilon]

FixSubDuration(sub) ==
  IF sub.duration # None /\ sub.duration <= 0
    THEN IF Truthy(sub.start_time) /\ Truthy(sub.end_time) /\ sub.end_time > sub.start_time
           THEN [sub EXCEPT !.duration = sub.end_time - sub.start_time]
           ELSE [sub EXCEPT !.duration = Epsilon]
    ELSE sub

\* branch "completed" of step_callback
CompleteStep(step, arg, t) ==
  LET ct == IF IsNumber(arg) THEN arg.ts ELSE t
      subs == [i \in 1..Len(step.sub_steps_detailed) |->
                 FixSubDuration(CompleteSubOfStep(step.sub_steps_detailed[i], ct))]
      total == SumDurations(subs)
      s1 == [step EXCEPT !.sub_steps_detailed = subs]
  IN  IF subs # <<>>
        THEN IF IsNumber(arg) /\ arg.ts # 0
               THEN [s1 EXCEPT !.status = "completed", !.end_time = arg.ts,
                               !.duration = total,
                               !.start_time = IF Truthy(@) THEN @ ELSE arg.ts - total]
               ELSE [complete(s1, t) EXCEPT
                       !.duration = total,
                       !.end_time = IF Truthy(s1.start_time)
                                      THEN s1.start_time + total ELSE @]
        ELSE IF IsNumber(arg) /\ arg.ts # 0
               THEN IF Truthy(s1.start_time)
                      THEN [s1 EXCEPT !.status = "completed", !.end_time = arg.ts,
                                      !.duration = Max(Epsilon, arg.ts - s1.start_time)]
                      ELSE [s1 EXCEPT !.status = "completed", !.end_time = arg.ts,
                                      !.start_time = arg.ts - Epsilon,
                                      !.duration = Epsilon]
               ELSE LET c == complete(s1, t)
                    IN  IF c.duration = None \/ c.duration <= 0
                          THEN IF Truthy(c.start_time) /\ Truthy(c.end_time)
                                 THEN [c EXCEPT !.duration = Max(Epsilon, c.end_time - c.start_time)]
                                 ELSE IF Truthy(c.start_time)
                                   THEN [c EXCEPT !.end_time = t,
                                                  !.duration = Max(Epsilon, t - c.start_time)]
                                   ELSE [c EXCEPT !.duration = Epsilon]
                          ELSE c

\* branch "failed" of step_callback
FailStep(step, arg, t) ==
  IF IsNumber(arg) /\ arg.ts # 0
    THEN [step EXCEPT !.status = "failed", !.end_time = arg.ts,
                      !.duration = IF Truthy(step.start_time)
                                     THEN arg.ts - step.start_time ELSE @]
    ELSE fail(step, t)

\* The if / elif chain of step_callback: the status branches are elif arms
\* of the isinstance tests, all inside "if status == 'sub_step':".
ApplyEvent(step, status, arg, t) ==
  IF status = "sub_step"
    THEN CASE arg.kind = "tuple" -> SubStepTuple(step, arg.name, arg.ts)
           [] arg.kind = "str" -> SubStepNamed(step, arg.name, t)
           [] arg.kind \notin {"tuple", "str"} /\ status = "in_progress" -> StartStep(step, arg, t)
           [] arg.kind \notin {"tuple", "str"} /\ status = "completed" -> CompleteStep(step, arg, t)
           [] arg.kind \notin {"tuple", "str"} /\ status = "failed" -> FailStep(step, arg, t)
           [] OTHER -> step
    ELSE step

\* partial durations, recomputed before every write
RefreshSub(sub, t) ==
  IF sub.status = "in_progress" /\ Truthy(sub.start_time)
    THEN IF t - sub.start_time > 0 THEN [sub EXCEPT !.duration = t - sub.start_time]
                                   ELSE sub
    ELSE IF sub.status = "completed" /\ sub.duration = None
      THEN IF Truthy(sub.start_time) /\ Truthy(sub.end_time)
             THEN [sub EXCEPT !.duration = Max(Epsilon, sub.end_time - sub.start_time)]
             ELSE IF Truthy(sub.start_time)
               THEN [sub EXCEPT !.end_time = t,
                                !.duration = Max(Epsilon, t - sub.start_time)]
               ELSE sub
      ELSE sub

RefreshStep(step, t) ==
  LET s1 ==
        IF step.status = "in_progress"
          THEN IF Truthy(step.start_time)
                 THEN [step EXCEPT !.duration = Max(Epsilon, t - step.start_time)]
                 ELSE IF step.duration = None THEN [step EXCEPT !.duration = Epsilon]
                                              ELSE step
          ELSE IF step.status = "completed"
            THEN IF Truthy(step.start_time) /\ Truthy(step.end_time)
                   THEN [step EXCEPT !.duration = Max(Epsilon, step.end_time - step.start_time)]
                   ELSE IF Truthy(step.start_time)
                     THEN LET e == IF step.end_time = None THEN t ELSE step.end_time
                          IN  [step EXCEPT !.end_time = e,
                                           !.duration = Max(Epsilon, (IF Truthy(e) THEN e ELSE t)
                                                                       - step.start_time)]
                     ELSE IF Truthy(step.end_time)
                       THEN [step EXCEPT !.duration = Epsilon]
                       ELSE IF step.duration = None \/ step.duration <= 0
                              THEN [step EXCEPT !.duration = Epsilon] ELSE step
            ELSE step
  IN  [s1 EXCEPT !.sub_steps_detailed =
         [i \in 1..Len(s1.sub_steps_detailed) |-> RefreshSub(s1.sub_steps_detailed[i], t)]]

\* mutant: the steps are written without their sub-steps
Serialize_noSubSteps(step, t) == [step EXCEPT !.sub_steps_detailed = <<>>]

\* model_dump of a step, with the duration of the step made positive
Serialize(step, t) ==
  IF step.duration = None \/ step.duration <= 0
    THEN [step EXCEPT !.duration =
            IF Truthy(step.start_time) /\ Truthy(step.end_time)
              THEN Max(Epsilon, step.end_time - step.start_time)
              ELSE IF Truthy(step.start_time)
                THEN Max(Epsilon, t - step.start_time)
                ELSE Epsilon]
    ELSE step

\* step_callback(step_name, status, timestamp_or_substep)
step_callback(dict, name, status, arg, t) ==
  LET d1 == IF FirstIdx(dict, name) = 0
              THEN Append(dict, ProcessingStep(name, <<>>)) ELSE dict
      i == FirstIdx(d1, name)
      d2 == [d1 EXCEPT ![i] = ApplyEvent(@, status, arg, t)]
  IN  [k \in 1..Len(d2) |-> RefreshStep(d2[k], t)]

\* sorted(key = start_time or inf): Python's sort is stable
SortKey(sub) == IF Truthy(sub.start_time) THEN sub.start_time ELSE MaxTime + 1000

RECURSIVE InsertSorted(_, _)
InsertSorted(sorted, x) ==
  IF sorted = <<>> THEN <<x>>
  ELSE IF SortKey(sorted[Len(sorted)]) <= SortKey(x)
    THEN Append(sorted, x)
    ELSE Append(InsertSorted(SubSeq(sorted, 1, Len(sorted) - 1), x), sorted[Len(sorted)])

RECURSIVE SortByStart(_)
SortByStart(subs) ==
  IF subs = <<>> THEN <<>>
  ELSE InsertSorted(SortByStart(SubSeq(subs, 1, Len(subs) - 1)), subs[Len(subs)])

IsSmallCompleted(sub) ==
  /\ sub.name # MACRO_STEP_NAME
  /\ sub.status = "completed"
  /\ sub.duration # None
  /\ sub.duration < SMALL_STEP_THRESHOLD

MinOf(S) == CHOOSE x \in S : \A y \in S : x <= y
MaxOf(S) == CHOOSE x \in S : \A y \in S : x >= y

\* list.remove: the first element equal to x
RemoveFirst(seq, x) ==
  LET i == CHOOSE k \in 1..Len(seq) : seq[k] = x /\ \A m \in 1..(k - 1) : seq[m] # x
  IN  SubSeq(seq, 1, i - 1) \o SubSeq(seq, i + 1, Len(seq))

_group_small_substeps(step) ==
  LET subs == step.sub_steps_detailed
      macros == {i \in 1..Len(subs) : subs[i].name = MACRO_STEP_NAME}
      hasMacro == macros # {}
      m == IF hasMacro THEN MaxOf(macros) ELSE 0
      small == SelectSeq(subs, IsSmallCompleted)
      total0 == SumDurations(small)
      starts0 == {small[i].start_time : i \in 1..Len(small)} \ {None}
      ends0 == {small[i].end_time : i \in 1..Len(small)} \ {None}
  IN  IF subs = <<>> THEN step
      ELSE IF small = <<>>
        THEN IF hasMacro
               THEN [step EXCEPT !.sub_steps_detailed = RemoveFirst(subs, subs[m])]
               ELSE step
        ELSE IF hasMacro
          THEN LET starts == starts0 \cup (IF Truthy(subs[m].start_time)
                                             THEN {subs[m].start_time} ELSE {})
                   ends == ends0 \cup (IF Truthy(subs[m].end_time)
                                         THEN {subs[m].end_time} ELSE {})
                   total == total0 + (IF Truthy(subs[m].duration)
                                        THEN subs[m].duration ELSE 0)
                   macro == SubStep(MACRO_STEP_NAME, "completed",
                                    IF starts # {} THEN MinOf(starts) ELSE None,
                                    IF ends # {} THEN MaxOf(ends) ELSE None,
                                    Max(total, Epsilon))
               IN  [step EXCEPT !.sub_steps_detailed =
                      SortByStart([subs EXCEPT ![m] = macro])]
          ELSE LET macro == SubStep(MACRO_STEP_NAME, "completed",
                                    IF starts0 # {} THEN MinOf(starts0) ELSE None,
                                    IF ends0 # {} THEN MaxOf(ends0) ELSE None,
                                    Max(total0, Epsilon))
               IN  [step EXCEPT !.sub_steps_detailed = SortByStart(<<macro>> \o subs)]

\* ------------------------------------------- process_document_background
\* RedisService.update_job: the updates are merged into the stored job
update_job(job, updates) ==
  [k \in DOMAIN job \cup DOMAIN updates |->
     IF k \in DOMAIN updates THEN updates[k] ELSE job[k]]

Stamps == {TMin, now}
Args ==
  {[kind |-> "none", name |-> 0, ts |-> 0]}
    \cup {[kind |-> "num", name |-> 0, ts |-> ts] : ts \in Stamps}
    \cup {[kind |-> "str", name |-> n, ts |-> 0] : n \in SubNames}
    \cup {[kind |-> "tuple", name |-> n, ts |-> ts] : n \in SubNames, ts \in Stamps}
Statuses == {"in_progress", "completed", "failed", "sub_step"}

\* steps_dict is created with the OCR meta-step and written with status
\* "processing"
DocStart ==
  /\ dpc = "off"
  /\ dpc' = "parsing"
  /\ events' = 0
  /\ steps' = <<create_step(OcrStep, ocr_sub_steps)>>
  /\ live' = update_job(live, [status |-> "processing", steps |-> steps',
                               updated_at |-> now])
  /\ UNCHANGED <<now, extVars, queueVars, relVars, restVars>>

\* mutant: the write of step_callback stores the status of a new job
StepCallback_resets(name, status, arg) ==
  /\ dpc = "parsing"
  /\ events < MaxEvents
  /\ events' = events + 1
  /\ steps' = step_callback(steps, name, status, arg, now)
  /\ live' = update_job(live, [status |-> "pending",
                               steps |-> [k \in 1..Len(steps') |-> Serialize(steps'[k], now)],
                               updated_at |-> now])
  /\ dpc' = dpc
  /\ UNCHANGED <<now, extVars, queueVars, relVars, restVars>>

\* parse_document reports through step_callback, which ends with update_job
StepCallback(name, status, arg) ==
  /\ dpc = "parsing"
  /\ events < MaxEvents
  /\ events' = events + 1
  /\ steps' = step_callback(steps, name, status, arg, now)
  /\ live' = update_job(live, [steps |-> [k \in 1..Len(steps') |-> Serialize(steps'[k], now)],
                               updated_at |-> now])
  /\ dpc' = dpc
  /\ UNCHANGED <<now, extVars, queueVars, relVars, restVars>>

\* parse_document returned: completed steps are grouped, status "completed"
DocFinish ==
  /\ dpc = "parsing"
  /\ steps' = [k \in 1..Len(steps) |->
                 IF steps[k].status = "completed" /\ steps[k].sub_steps_detailed # <<>>
                   THEN _group_small_substeps(steps[k]) ELSE steps[k]]
  /\ live' = update_job(update_job(live, [result |-> "result", updated_at |-> now]),
                        [status |-> "completed", steps |-> steps',
                               updated_at |-> now])
  /\ dpc' = "done"
  /\ events' = events
  /\ UNCHANGED <<now, extVars, queueVars, relVars, restVars>>

\* mutant: the failure write stores no steps
DocFail_dropSteps ==
  /\ dpc = "parsing"
  /\ steps' = steps
  /\ live' = update_job(live, [status |-> "failed", error_message |-> "error",
                               steps |-> <<>>, updated_at |-> now])
  /\ dpc' = "done"
  /\ events' = events
  /\ UNCHANGED <<now, extVars, queueVars, relVars, restVars>>

\* parse_document raised: in-progress steps fail, status "failed"
DocFail ==
  /\ dpc = "parsing"
  /\ steps' = [k \in 1..Len(steps) |->
                 IF steps[k].status = "in_progress" THEN fail(steps[k], now) ELSE steps[k]]
  /\ live' = update_job(live, [status |-> "failed", error_message |-> "error",
                               steps |-> steps',
                               updated_at |-> now])
  /\ dpc' = "done"
  /\ events' = events
  /\ UNCHANGED <<now, extVars, queueVars, relVars, restVars>>

\* time passes
Tick ==
  /\ \E t \in Times : t > now /\ now' = t
  /\ UNCHANGED <<docVars, extVars, queueVars, relVars, restVars>>

StepNext ==
  \/ DocStart
  \/ \E name \in StepNames, status \in Statuses, arg \in Args :
       StepCallback(name, status, arg)
  \/ DocFinish
  \/ DocFail
  \/ Tick

\* the extraction worker is not running and the queue is empty
WorkerOff ==
  /\ store = EmptyStore
  /\ record = [j \in Jobs |-> "none"]
  /\ errorMessage = [j \in Jobs |-> FALSE]
  /\ stage = [j \in Jobs |-> "none"]
  /\ wOps = 0
  /\ wpc = "stopped"
  /\ wjob = NoJob
  /\ wkeys = {}
  /\ success = FALSE
  /\ cancelled = FALSE
  /\ cancelUsed = TRUE
  /\ crashes = 0
  /\ enqueued = <<>>
  /\ dequeued = <<>>
  /\ released = [j \in Jobs |-> 0]
  /\ afterClear = {}
  /\ enqDuring = [j \in Jobs |-> NoJob]
  /\ crashLock = NoJob
  /\ relJob = NoJob
  /\ relCalls = 0
  /\ relFirst = EmptyStore
  /\ relErr = FALSE

StepInit == TrackIdle /\ WorkerOff

StepSpec == StepInit /\ [][StepNext]_vars

\* ---------------------------------------------------- process_extraction
LoadStep == 1
OcrPhase == 2
LlmStep == 3
ParserSteps == (LlmStep + 1)..(LlmStep + MaxParserSteps)

ExtStep(name) ==
  [name |-> name, status |-> "pending", start_time |-> None, end_time |-> None,
   duration |-> None]

\* update_step(step_name, status): the steps dict after the call
update_step(dict, name, status, t) ==
  LET d1 == IF FirstIdx(dict, name) = 0 THEN Append(dict, ExtStep(name)) ELSE dict
      i == FirstIdx(d1, name)
  IN  CASE status = "in_progress" ->
             [d1 EXCEPT ![i] = [@ EXCEPT !.status = "in_progress", !.start_time = t]]
        [] status = "completed" ->
             [d1 EXCEPT ![i] = [@ EXCEPT !.status = "completed", !.end_time = t,
                                         !.duration = IF Truthy(d1[i].start_time)
                                                        THEN t - d1[i].start_time
                                                        ELSE @]]
        [] OTHER -> d1

\* update_step ends by handing the steps to redis_service.store_execution
UpdateStep(name, status) ==
  /\ esteps' = update_step(esteps, name, status, now)
  /\ esnap' = [steps |-> esteps',
               current_step |-> IF status = "in_progress" THEN name ELSE None]

\* store_execution(execution_id, {"steps": [], "current_step": None})
ExtStart ==
  /\ epc = "off"
  /\ epc' = "load"
  /\ esteps' = <<>>
  /\ esnap' = [steps |-> <<>>, current_step |-> None]
  /\ UNCHANGED <<now, docVars, queueVars, relVars, restVars>>

\* the update_step calls that process_extraction makes itself, in order
ExtScript ==
  [load |-> [name |-> LoadStep, status |-> "in_progress", next |-> "loading"],
   loading |-> [name |-> LoadStep, status |-> "completed", next |-> "ocr_start"],
   ocr_start |-> [name |-> OcrPhase, status |-> "in_progress", next |-> "ocr"],
   ocr |-> [name |-> OcrPhase, status |-> "completed", next |-> "llm_start"],
   llm_start |-> [name |-> LlmStep, status |-> "in_progress", next |-> "llm"],
   llm |-> [name |-> LlmStep, status |-> "completed", next |-> "final"]]

ExtUpdate ==
  /\ epc \in DOMAIN ExtScript
  /\ UpdateStep(ExtScript[epc].name, ExtScript[epc].status)
  /\ epc' = ExtScript[epc].next
  /\ UNCHANGED <<now, docVars, queueVars, relVars, restVars>>

\* parse_document reports through step_callback, which calls update_step
ExtParserCallback(name, status) ==
  /\ epc = "ocr"
  /\ UpdateStep(name, status)
  /\ epc' = epc
  /\ UNCHANGED <<now, docVars, queueVars, relVars, restVars>>

\* update_execution(status="completed") and the final Redis update
ExtFinal ==
  /\ epc = "final"
  /\ epc' = "done"
  /\ UNCHANGED <<now, esteps, esnap, docVars, queueVars, relVars, restVars>>

\* get_file_path, parse_document or analyze_ocr_content raises
ExtRaise ==
  /\ epc \in {"loading", "ocr", "llm"}
  /\ epc' = "done"
  /\ UNCHANGED <<now, esteps, esnap, docVars, queueVars, relVars, restVars>>

ExtractNext ==
  \/ ExtStart
  \/ ExtUpdate
  \/ \E name \in ParserSteps, status \in Statuses : ExtParserCallback(name, status)
  \/ ExtFinal
  \/ ExtRaise
  \/ Tick

ExtractSpec == StepInit /\ [][ExtractNext]_vars

\* ------------------------------------------------ process_document, polls
PRE_ATTEMPTS == 5
GEN_ATTEMPTS == 10
KEEPALIVE_POLLS == 25
max_no_change == 10
CEILING_FACTOR == 50
TerminalStatus == {"completed", "failed", "cancelled"}

\* dict.get(key): None when the key is missing
Get(job, k) == IF k \in DOMAIN job THEN job[k] ELSE NoneStr

\* md5 of json.dumps(steps, sort_keys=True): the digest of the canonical text,
\* equal for equal step lists
steps_hash(list) == <<"md5", list>>

\* the three values the generator compares between polls
ChangeKey(job) ==
  [updated_at |-> Get(job, "updated_at"), status |-> Get(job, "status"),
   steps_hash |-> steps_hash(Get(job, "steps"))]

\* the data event built from a job read from the store
Snapshot(job, from) ==
  [kind |-> "data", from |-> from, status |-> Get(job, "status"),
   updated_at |-> Get(job, "updated_at"), steps |-> Get(job, "steps"),
   result |-> Get(job, "result"), error_message |-> Get(job, "error_message")]

\* {"status": "pending", "message": "Waiting for job to be created..."}
Placeholder == [kind |-> "data", from |-> "placeholder", status |-> "pending"]
\* {"error": "Job not found"}
NotFound == [kind |-> "data", from |-> "error"]
Keepalive == [kind |-> "comment", from |-> "poll"]

\* process_document: store_job, then the background task is scheduled
CreateJob ==
  /\ ~known
  /\ dpc = "off"
  /\ known' = TRUE
  /\ live' = JobData(now)
  /\ UNCHANGED <<now, dpc, events, steps, extVars, queueVars, relVars,
                 spc, preReads, genReads, last, cnt, ev, resp, callVars>>

\* GET /jobs/{id}/stream with a well-formed id
StreamOpen ==
  /\ spc = "off"
  /\ spc' = "pre"
  /\ UNCHANGED <<known, preReads, genReads, last, cnt, ev, resp, callVars,
                 now, docVars, extVars, queueVars, relVars>>

\* mutant: the endpoint answers 404 when the job is not there after the retries
StreamPre_notFound ==
  /\ spc = "pre"
  /\ preReads' = preReads + 1
  /\ spc' = IF known THEN "gen"
            ELSE IF preReads + 1 = PRE_ATTEMPTS THEN "closed" ELSE "pre"
  /\ ev' = NoEvent
  /\ UNCHANGED <<known, genReads, last, cnt, resp, callVars,
                 now, docVars, extVars, queueVars, relVars>>

\* one get_job of the loop that precedes the response
StreamPre ==
  /\ spc = "pre"
  /\ preReads' = preReads + 1
  /\ spc' = IF known \/ preReads + 1 = PRE_ATTEMPTS THEN "gen" ELSE "pre"
  /\ ev' = NoEvent
  /\ UNCHANGED <<known, genReads, last, cnt, resp, callVars,
                 now, docVars, extVars, queueVars, relVars>>

\* one get_job of the generator's initial loop; the initial snapshot, or the
\* pending placeholder after the last attempt
StreamInitial ==
  /\ spc = "gen"
  /\ genReads' = genReads + 1
  /\ IF known
       THEN /\ ev' = Snapshot(live, "initial")
            /\ last' = ChangeKey(live)
            /\ spc' = IF Get(live, "status") \in TerminalStatus THEN "closed" ELSE "poll"
       ELSE /\ last' = last
            /\ IF genReads + 1 = GEN_ATTEMPTS
                 THEN ev' = Placeholder /\ spc' = "poll"
                 ELSE ev' = NoEvent /\ spc' = "gen"
  /\ UNCHANGED <<known, preReads, cnt, resp, callVars,
                 now, docVars, extVars, queueVars, relVars>>

\* mutant: only updated_at is compared
Changed_updatedAtOnly(job, prev) == Get(job, "updated_at") # prev.updated_at

\* the comparison of a polled job with the last emitted one
Changed(job, prev) ==
  \/ Get(job, "updated_at") # prev.updated_at
  \/ Get(job, "status") # prev.status
  \/ steps_hash(Get(job, "steps")) # prev.steps_hash

\* mutant: the keepalive is due one poll later and the count runs on
StreamPoll_lateKeepalive ==
  /\ spc = "poll"
  /\ IF ~known
       THEN ev' = NotFound /\ spc' = "closed" /\ UNCHANGED <<last, cnt>>
       ELSE IF Changed(live, last)
         THEN /\ ev' = Snapshot(live, "poll")
              /\ last' = ChangeKey(live)
              /\ cnt' = 0
              /\ spc' = IF Get(live, "status") \in TerminalStatus THEN "closed" ELSE "poll"
         ELSE LET c1 == cnt + 1
                  c2 == IF c1 > KEEPALIVE_POLLS THEN 0 ELSE c1
              IN  /\ ev' = IF c1 > KEEPALIVE_POLLS THEN Keepalive ELSE NoEvent
                  /\ cnt' = c2
                  /\ last' = last
                  /\ spc' = IF /\ c2 >= max_no_change * CEILING_FACTOR
                               /\ Get(live, "status") \notin {"processing", "pending"}
                              THEN "closed" ELSE "poll"
  /\ UNCHANGED <<known, preReads, genReads, resp, callVars,
                 now, docVars, extVars, queueVars, relVars>>

\* one iteration of "while True": sleep, get_job, compare, yield
StreamPoll ==
  /\ spc = "poll"
  /\ IF ~known
       THEN ev' = NotFound /\ spc' = "closed" /\ UNCHANGED <<last, cnt>>
       ELSE IF Changed(live, last)
         THEN /\ ev' = Snapshot(live, "poll")
              /\ last' = ChangeKey(live)
              /\ cnt' = 0
              /\ spc' = IF Get(live, "status") \in TerminalStatus THEN "closed" ELSE "poll"
         ELSE LET c1 == cnt + 1
                  c2 == IF c1 >= KEEPALIVE_POLLS THEN 0 ELSE c1
              IN  /\ ev' = IF c1 >= KEEPALIVE_POLLS THEN Keepalive ELSE NoEvent
                  /\ cnt' = c2
                  /\ last' = last
                  /\ spc' = IF /\ c2 >= max_no_change * CEILING_FACTOR
                               /\ Get(live, "status") \notin {"processing", "pending"}
                              THEN "closed" ELSE "poll"
  /\ UNCHANGED <<known, preReads, genReads, resp, callVars,
                 now, docVars, extVars, queueVars, relVars>>

stream_job_status == StreamOpen \/ StreamPre \/ StreamInitial \/ StreamPoll

\* mutant: an unknown job is answered like a pending one
get_job_status_pending ==
  /\ resp' = [code |-> 200, status |-> IF known THEN live["status"] ELSE "pending",
              updated_at |-> live["updated_at"], steps |-> Get(live, "steps"),
              result |-> Get(live, "result"),
              error_message |-> Get(live, "error_message")]
  /\ UNCHANGED <<streamVars, callVars, now, docVars, extVars, queueVars, relVars>>

\* GET /jobs/{id} with a well-formed id
get_job_status ==
  /\ resp' = IF ~known THEN [code |-> 404]
             ELSE [code |-> 200, status |-> live["status"],
                   updated_at |-> live["updated_at"], steps |-> Get(live, "steps"),
                   result |-> Get(live, "result"),
                   error_message |-> Get(live, "error_message")]
  /\ UNCHANGED <<streamVars, callVars, now, docVars, extVars, queueVars, relVars>>

\* the parser reports the start of the first sub-step of the OCR step
NamedSubStep ==
  StepCallback(OcrStep, "sub_step", [kind |-> "str", name |-> ocr_sub_steps[1], ts |-> 0])

\* the document job as the readers see it
DocumentJob ==
  \/ CreateJob
  \/ known /\ DocStart
  \/ NamedSubStep
  \/ DocFinish
  \/ DocFail
  \/ Tick

\* no job yet, no stream, the extraction worker is not running
StreamInit ==
  /\ WorkerOff
  /\ now = TMin
  /\ dpc = "off"
  /\ events = 0
  /\ steps = <<>>
  /\ live = JobData(TMin)
  /\ epc = "off"
  /\ esteps = <<>>
  /\ esnap = [steps |-> <<>>, current_step |-> None]
  /\ known = FALSE
  /\ spc = "off"
  /\ preReads = 0
  /\ genReads = 0
  /\ last = NoLast
  /\ cnt = 0
  /\ ev = NoEvent
  /\ resp = NoResp
  /\ cpc = [c \in Callers |-> "idle"]
  /\ cjob = [c \in Callers |-> NoJob]
  /\ lpc = "idle"
  /\ attempt = 0
  /\ ltrace = <<>>
  /\ lres = None
  /\ xpc = "off"
  /\ elapsed = 0
  /\ xev = NoEvent
  /\ dones = 0
  /\ flowActive = TRUE

StreamNext == DocumentJob \/ stream_job_status

StreamSpec == StreamInit /\ [][StreamNext]_vars

\* the generator is resumed after each of its sleeps; the job may stop
\* making progress at any point
StreamFairSpec == StreamSpec /\ WF_vars(stream_job_status)

PollNext == DocumentJob \/ get_job_status

PollSpec == StreamInit /\ [][PollNext]_vars

\* ------------------------------------------------------------- GroupSpec
\* _group_small_substeps applied again and again to one completed step
MaxGroupCalls == 2

\* what a sub-step of a given name can be: pending, started, or completed
\* with the duration end - start or with the floor of complete()
SubInputs(name) ==
  {SubStep(name, "pending", None, None, None)}
    \cup {SubStep(name, "in_progress", s, None, None) : s \in Times}
    \cup {SubStep(name, "completed", t[1], t[2], t[2] - t[1]) :
            t \in {u \in Times \X Times : u[1] <= u[2]}}
    \cup {SubStep(name, "completed", t[1], t[2], Max(t[2] - t[1], Epsilon)) :
            t \in {u \in Times \X Times : u[1] <= u[2]}}

\* the completed steps, one sub-step for each name
GroupInputs ==
  {complete(start(ProcessingStep(OcrStep, subs), TMin), MaxTime) :
     subs \in {f \in [SubNames -> UNION {SubInputs(n) : n \in SubNames}] :
                 \A n \in SubNames : f[n] \in SubInputs(n)}}

GroupInit ==
  /\ WorkerOff
  /\ RestIdle
  /\ now = MaxTime
  /\ dpc = "grouping"
  /\ events = 0
  /\ steps \in {<<step>> : step \in GroupInputs}
  /\ live = JobData(TMin)
  /\ epc = "off"
  /\ esteps = <<>>
  /\ esnap = [steps |-> <<>>, current_step |-> None]

\* for step in steps_dict.values(): _group_small_substeps(step)
GroupApply ==
  /\ dpc = "grouping"
  /\ events < MaxGroupCalls
  /\ events' = events + 1
  /\ steps' = [k \in 1..Len(steps) |->
                 IF steps[k].status = "completed" /\ steps[k].sub_steps_detailed # <<>>
                   THEN _group_small_substeps(steps[k]) ELSE steps[k]]
  /\ UNCHANGED <<now, dpc, live, extVars, queueVars, relVars, restVars>>

GroupSpec == GroupInit /\ [][GroupApply]_vars

\* -------------------------------------------------------- ExecStreamSpec
\* stream_execution_status: the SSE generator of one execution, read by a
\* client that stays connected, while the worker writes the record and the
\* flow may be deactivated.
max_wait == 300
poll_interval == 1

\* the execution the stream was opened for
XJob == 1

StatusEvent(status) ==
  [kind |-> "status", what |-> status, done |-> status \in Terminal]
ErrorEvent(error) == [kind |-> "error", what |-> error, done |-> TRUE]

ExecUnchanged ==
  UNCHANGED <<store, stage, wOps, wpc, wjob, wkeys, success, cancelled,
              cancelUsed, crashes, histVars, errorMessage, relVars, trackVars,
              streamVars, resp, cpc, cjob, llmVars>>

\* the record of the execution is committed and then written by the worker
ExecutionWrite(status) ==
  /\ \/ record[XJob] = "none" /\ status = "pending"
     \/ record[XJob] = "pending" /\ status = "processing"
     \/ record[XJob] = "processing" /\ status \in Terminal
  /\ record' = [record EXCEPT ![XJob] = status]
  /\ UNCHANGED execVars
  /\ ExecUnchanged

\* update_flow(is_active=False) or the deletion of the flow
FlowDeactivated ==
  /\ flowActive
  /\ flowActive' = FALSE
  /\ UNCHANGED <<record, xpc, elapsed, xev, dones>>
  /\ ExecUnchanged

\* the generator is started: max_wait, poll_interval, elapsed = 0
ExecStreamOpen ==
  /\ xpc = "off"
  /\ xpc' = "poll"
  /\ elapsed' = 0
  /\ UNCHANGED <<record, xev, dones, flowActive>>
  /\ ExecUnchanged

\* what one pass of the loop body yields
ExecEvent ==
  IF ~flowActive THEN ErrorEvent("Flow not found")
  ELSE IF record[XJob] = "none" THEN ErrorEvent("Execution not found")
  ELSE StatusEvent(record[XJob])

\* mutant: the generator goes on polling after the completed or failed event
ExecStreamPoll_noReturn ==
  /\ xpc = "poll"
  /\ xev' = ExecEvent
  /\ dones' = IF xev'.done THEN dones + 1 ELSE dones
  /\ xpc' = IF xev'.done /\ xev'.kind = "error" THEN "closed" ELSE "sleep"
  /\ UNCHANGED <<record, elapsed, flowActive>>
  /\ ExecUnchanged

\* one pass of the loop body: the flow and the execution are read in a
\* fresh session and one event is yielded; a done event is followed by return
ExecStreamPoll ==
  /\ xpc = "poll"
  /\ xev' = ExecEvent
  /\ dones' = IF xev'.done THEN dones + 1 ELSE dones
  /\ xpc' = IF xev'.done THEN "closed" ELSE "sleep"
  /\ UNCHANGED <<record, elapsed, flowActive>>
  /\ ExecUnchanged

\* asyncio.sleep(poll_interval); elapsed += poll_interval; the loop test
ExecStreamSleep ==
  /\ xpc = "sleep"
  /\ elapsed' = elapsed + poll_interval
  /\ xpc' = IF elapsed' < max_wait THEN "poll" ELSE "timeout"
  /\ UNCHANGED <<record, xev, dones, flowActive>>
  /\ ExecUnchanged

\* after the loop: the timeout event
ExecStreamTimeout ==
  /\ xpc = "timeout"
  /\ xev' = ErrorEvent("Timeout waiting for completion")
  /\ dones' = dones + 1
  /\ xpc' = "closed"
  /\ UNCHANGED <<record, elapsed, flowActive>>
  /\ ExecUnchanged

stream_execution_status ==
  ExecStreamOpen \/ ExecStreamPoll \/ ExecStreamSleep \/ ExecStreamTimeout

ExecStreamNext ==
  \/ \E status \in {"pending", "processing", "completed", "failed"} :
       ExecutionWrite(status)
  \/ FlowDeactivated
  \/ stream_execution_status

\* StreamingResponse iterates the generator for as long as the client reads
ExecStreamSpec ==
  /\ StepInit /\ [][ExecStreamNext]_vars
  /\ WF_vars(stream_execution_status)

\* ---------------------------------------------------------------- claims
Processing == {j \in Jobs : record[j] = "processing"}
Pos(seq, x) == CHOOSE i \in 1..Len(seq) : seq[i] = x
IsPrefix(a, b) == Len(a) <= Len(b) /\ SubSeq(b, 1, Len(a)) = a

C3_Fifo ==
  \A i, k \in 1..Len(dequeued) :
    i < k => Pos(enqueued, dequeued[i]) < Pos(enqueued, dequeued[k])

\* two jobs waited in the queue together behind a third and all were returned
C3_Witness ==
  /\ Len(dequeued) = 3
  /\ \E b, c \in Jobs : b # c /\ enqDuring[b] # NoJob /\ enqDuring[b] = enqDuring[c]

C6_IdempotentRelease ==
  /\ ~relErr
  /\ relCalls >= 1 => store.lock = NoJob /\ relJob \notin store.payload
  /\ relCalls = 2 => store = relFirst

\* the second call has been made, on a store whose first call removed both keys
C6_Witness ==
  /\ relCalls = 2 /\ store.lock = NoJob /\ relJob \notin store.payload
  /\ store.queue # <<>>

\* the indices of the steps that are in progress in a stored step list
InProgress(list) == {i \in 1..Len(list) : list[i].status = "in_progress"}

\* C7: single in-progress step -- every step list written to the store, by
\* the step callback of a document job or by update_step of an extraction,
\* has at most one step with status in_progress.
C7_SingleInProgress ==
  /\ Cardinality(InProgress(live.steps)) <= 1
  /\ Cardinality(InProgress(esnap.steps)) <= 1

ExtNames == {LoadStep, OcrPhase, LlmStep} \cup ParserSteps

\* update_step(y, "in_progress") is the transition being taken
Started(y) ==
  /\ UpdateStep(y, "in_progress")
  /\ now' = now
  /\ \/ epc = "ocr" /\ epc' = epc /\ y \in ParserSteps
     \/ /\ epc \in DOMAIN ExtScript
        /\ ExtScript[epc].name = y /\ ExtScript[epc].status = "in_progress"
        /\ epc' = ExtScript[epc].next

\* C8: step start transition -- when a started event arrives for step Y while
\* another step X is in progress, the stored list has X completed with an end
\* time and a duration, and Y in progress with the time of the event as its
\* start time.
C8_StepStart ==
  [][\A y \in ExtNames :
       Started(y) =>
         /\ \E i \in 1..Len(esnap'.steps) :
              /\ esnap'.steps[i].name = y
              /\ esnap'.steps[i].status = "in_progress"
              /\ esnap'.steps[i].start_time = now
         /\ \A i \in InProgress(esteps) :
              esteps[i].name # y =>
                /\ esnap'.steps[i].status = "completed"
                /\ esnap'.steps[i].end_time # None
                /\ esnap'.steps[i].duration # None
    ]_vars

\* C9: positive duration floor -- in every stored step list every completed
\* step and every completed sub-step has a duration of at least Epsilon.
C9_DurationFloor ==
  \A k \in 1..Len(live.steps) :
    LET step == live.steps[k]
        subs == step.sub_steps_detailed
    IN  /\ step.status = "completed" =>
             step.duration # None /\ step.duration >= Epsilon
        /\ \A i \in 1..Len(subs) :
             subs[i].status = "completed" =>
               subs[i].duration # None /\ subs[i].duration >= Epsilon

\* C10: quick-operations grouping -- when the job finishes with sub-steps of a
\* step completed in less than SMALL_STEP_THRESHOLD each, the step list stored
\* with status "completed" holds, for that step, exactly one sub-step named
\* MACRO_STEP_NAME, completed, whose duration is the sum of theirs (at least
\* Epsilon), and holds each of them unchanged.
C10_QuickOperations ==
  [][dpc = "parsing" /\ dpc' = "done" /\ live'.status = "completed" =>
       \A k \in 1..Len(steps) :
         LET small == SelectSeq(steps[k].sub_steps_detailed, IsSmallCompleted)
             final == live'.steps[k].sub_steps_detailed
             macros == {i \in 1..Len(final) : final[i].name = MACRO_STEP_NAME}
         IN  small # <<>> =>
               /\ Cardinality(macros) = 1
               /\ \A m \in macros :
                    /\ final[m].status = "completed"
                    /\ final[m].duration = Max(SumDurations(small), Epsilon)
               /\ \A i \in 1..Len(small) : \E n \in 1..Len(final) : final[n] = small[i]
    ]_vars

\* C11: stream opened before the job exists -- while the job has no LiveState
\* the endpoint reads the store at most PRE_ATTEMPTS times before the response
\* and GEN_ATTEMPTS times in the generator, never ends with an error before
\* that, and then yields one data event with status "pending".
C11_StreamBeforeJob ==
  /\ preReads <= PRE_ATTEMPTS /\ genReads <= GEN_ATTEMPTS
  /\ ~known /\ spc \in {"pre", "gen"} => ev = NoEvent
  /\ ~known /\ spc = "poll" =>
       /\ preReads = PRE_ATTEMPTS /\ genReads = GEN_ATTEMPTS
       /\ ev = Placeholder /\ ev.status = "pending"
  /\ ~known /\ spc = "closed" => ev = NotFound /\ genReads = GEN_ATTEMPTS

\* the placeholder has just been yielded for a job that still does not exist
C11_Witness ==
  ~known /\ spc = "poll" /\ ev = Placeholder /\ preReads = 5 /\ genReads = 10

\* C15: stream change detection -- at each poll after the initial snapshot a
\* data event is yielded exactly when the polled status, updated_at or steps
\* hash differs from the last emitted ones, and the event yielded then differs
\* from the previous one in one of the three.
C15_ChangeDetection ==
  [][spc = "poll" /\ known /\ last # NoLast /\ <<spc, last, cnt>>' # <<spc, last, cnt>> =>
       /\ ev'.kind = "data" <=> ChangeKey(live) # last
       /\ ev'.kind = "data" =>
            /\ ev' = Snapshot(live, "poll")
            /\ last' = ChangeKey(live) /\ last' # last
       /\ ev'.kind # "data" => last' = last
    ]_vars

\* a poll yielded a snapshot whose status and updated_at are those of the
\* initial snapshot: only the steps had changed
C15_Witness ==
  /\ ev.kind = "data" /\ ev.from = "poll"
  /\ ev.status = "processing" /\ ev.updated_at = TMin
  /\ ev.steps # <<>> /\ ev.steps[1].sub_steps_detailed[1].status = "in_progress"

\* C16: stream termination -- a snapshot with status completed, failed or
\* cancelled is the last thing the stream yields, and every stream that has
\* started polling eventually closes, also when the job stays pending or
\* processing without a change.
C16_StreamTermination ==
  /\ [](ev.kind = "data" /\ ev.from \in {"initial", "poll"}
          /\ ev.status \in TerminalStatus => spc = "closed")
  /\ [](spc = "closed" => [](spc = "closed"))
  /\ (spc = "poll") ~> (spc = "closed")

Rank(status) ==
  CASE status = "none" -> 0
    [] status = "pending" -> 1
    [] status = "processing" -> 2
    [] OTHER -> 3

\* C12: monotonic JobRecord status -- the status of an execution only moves
\* forward along pending, processing, completed or failed, and a completed or
\* failed status is never changed by a later write.
C12_MonotonicStatus ==
  [][\A j \in Jobs :
       /\ Rank(record'[j]) >= Rank(record[j])
       /\ record[j] \in Terminal => record'[j] = record[j]
    ]_vars

C14_RejectedNoTrace ==
  \A j \in Jobs :
    stage[j] = "rejected" =>
      /\ record[j] = "none"
      /\ j \notin store.payload
      /\ j \notin Range(store.queue) /\ j \notin Range(enqueued)

\* one submission was refused while another one is in the queue
C14_Witness ==
  \E j, k \in Jobs :
    /\ stage[j] = "rejected" /\ record[j] = "none"
    /\ stage[k] = "queued" /\ record[k] = "pending" /\ k \in Range(store.queue)

\* the calls of get_next_job that returned a payload
Returned == {c \in Callers : cpc[c] = "returned"}

\* C17: atomic dequeue -- of the get_next_job calls that overlap while the
\* lock is absent at most one returns a payload, and the lock then holds the
\* id of the job that was returned.
C17_AtomicDequeue ==
  /\ Cardinality(Returned) <= 1
  /\ \A c \in Returned : store.lock = cjob[c]

\* C18: clear_stale_state postcondition -- when clear_stale_state has
\* returned, whatever the store held before, the lock is absent, the queue
\* list is empty and no payload key exists; no step of it changes a job's
\* LiveState or a JobRecord.
C18_ClearPostcondition ==
  /\ [](wpc = "poll" => store = EmptyStore)
  /\ [][/\ record' = record
        /\ errorMessage' = errorMessage
        /\ live' = live
        /\ known' = known]_vars

\* clear_stale_state returned after it found a lock, a queue and payloads,
\* with a record and a LiveState in place
C18_Witness ==
  /\ wpc = "poll"
  /\ crashLock # NoJob
  /\ known
  /\ \E j \in Jobs : record[j] = "pending"

\* the stored step is the in-memory step, but for a duration that the
\* serialization made positive where the step had none
WrittenFrom(stored, step) ==
  /\ [stored EXCEPT !.duration = step.duration] = step
  /\ \/ stored.duration = step.duration
     \/ /\ step.duration = None \/ step.duration <= 0
        /\ stored.duration >= Epsilon

NamesOf(list) == {list[k].name : k \in 1..Len(list)}
OriginalSubs(list, n) ==
  UNION {NamesOf(list[k].sub_steps_detailed) \ {MACRO_STEP_NAME} :
           k \in {i \in 1..Len(list) : list[i].name = n}}

\* C21: steps are never deleted -- every write of the LiveState keeps each
\* step name and each original sub-step name that the LiveState held before,
\* up to and including the final write.
C21_StepsNeverDeleted ==
  [][/\ NamesOf(live.steps) \subseteq NamesOf(live'.steps)
     /\ \A n \in NamesOf(live.steps) :
          OriginalSubs(live.steps, n) \subseteq OriginalSubs(live'.steps, n)]_vars

\* the final snapshot holds a step discovered by a callback and a sub-step
\* added to the predefined ones
C21_Witness ==
  /\ dpc = "done"
  /\ Len(live.steps) >= 2
  /\ \E k \in 1..Len(live.steps) : Len(live.steps[k].sub_steps_detailed) >= 2

Running(subs) == {i \in 1..Len(subs) : subs[i].status = "in_progress"}

\* C23: single in-progress sub-step -- under every step at most one sub-step
\* is in_progress, and naming a sub-step under it now would leave exactly
\* the named sub-step in_progress, created if it did not exist, every
\* sibling that was in_progress being completed with an end_time and a
\* duration.
C23_SingleSubStep ==
  \A k \in 1..Len(steps) :
    /\ Cardinality(Running(steps[k].sub_steps_detailed)) <= 1
    /\ \A n \in SubNames :
         LET before == steps[k].sub_steps_detailed
             after == SubStepNamed(steps[k], n, now).sub_steps_detailed
         IN  /\ FirstIdx(after, n) # 0
             /\ Running(after) = {FirstIdx(after, n)}
             /\ \A i \in Running(before) \ {FirstIdx(after, n)} :
                  /\ after[i].status = "completed"
                  /\ after[i].end_time = now
                  /\ after[i].duration # None

\* a sub-step was named while a sibling was in progress: the sibling is
\* completed at the instant the named one started
C23_Witness ==
  \E k \in 1..Len(steps) :
    \E i, m \in 1..Len(steps[k].sub_steps_detailed) :
      LET subs == steps[k].sub_steps_detailed
      IN  /\ i # m
          /\ subs[i].status = "completed"
          /\ subs[m].status = "in_progress"
          /\ subs[i].end_time = subs[m].start_time
          /\ Truthy(subs[i].start_time)
          /\ subs[i].start_time < subs[i].end_time
          /\ subs[m].name # ocr_sub_steps[1]

\* step_callback(name, status) without a third argument, for the step at k
Reported(k, status) ==
  step_callback(steps, steps[k].name, status,
                [kind |-> "none", name |-> 0, ts |-> 0], now)[k]

\* C24: completed and failed events take effect -- a completed event for a
\* step leaves it completed, a failed event leaves it failed, and both set
\* its end_time.
C24_EventsTakeEffect ==
  \A k \in 1..Len(steps) :
    /\ Reported(k, "completed").status = "completed"
    /\ Reported(k, "failed").status = "failed"
    /\ Truthy(Reported(k, "completed").end_time)
    /\ Truthy(Reported(k, "failed").end_time)

\* the write of the failure handler is the step from "parsing" to a
\* LiveState with status "failed"
FailureWrite == dpc = "parsing" /\ live'.status = "failed"

\* a step that was in progress is stored failed, with what it had recorded
FailedFrom(b, a) ==
  /\ b.status = "failed"
  /\ b.name = a.name
  /\ b.start_time = a.start_time
  /\ b.sub_steps_detailed = a.sub_steps_detailed

UnchangedPoll ==
  /\ spc = "poll"
  /\ known
  /\ ~Changed(live, last)
  /\ <<cnt, ev, spc>>' # <<cnt, ev, spc>>

\* C26: keepalive cadence -- the polls that find no change are counted from
\* the last frame; the 25th of them emits the keepalive frame and starts the
\* count again, the others emit nothing, so the count never reaches 25.
C26_KeepaliveCadence ==
  /\ [](cnt < KEEPALIVE_POLLS)
  /\ [][UnchangedPoll =>
          IF cnt = KEEPALIVE_POLLS - 1
            THEN ev' = Keepalive /\ cnt' = 0
            ELSE ev' = NoEvent /\ cnt' = cnt + 1]_vars

\* a keepalive has just been emitted for a job that is being processed
C26_Witness ==
  /\ spc = "poll"
  /\ ev = Keepalive
  /\ cnt = 0
  /\ live.status = "processing"

\* C27: store errors do not kill the worker -- the loop is left only by a
\* cancellation, and the step on which get_next_job or mark_job_complete
\* first raises takes the worker to its sleep or to its next iteration
\* (to the end of the task only when a cancellation was already pending).
C27_StoreErrors ==
  /\ [](wpc = "stopped" => cancelUsed)
  /\ [][~relErr /\ relErr' =>
          \/ wpc' \in {"sleep", "poll"}
          \/ cancelled /\ wpc' = "stopped"]_vars

\* after a store error, and with no cancellation, the worker has released a
\* job and started another one
C27_Witness ==
  /\ relErr
  /\ ~cancelUsed
  /\ wpc \in BodyStates
  /\ \E j \in Jobs : released[j] > 0 /\ j # wjob

\* C28: queue entries have payloads -- every id in the queue list has its
\* payload key, whatever the order of enqueue_job, get_next_job and
\* mark_job_complete, an id enqueued twice included.
C28_QueuedHavePayloads ==
  \A i \in 1..Len(store.queue) : store.queue[i] \in store.payload

\* the worker is in its loop
LoopRuns == wpc \in PollStates \cup BusyStates

\* C29: stale-lock recovery only at startup -- clear_stale_state is entered
\* only when the process starts and runs its commands once, in order,
\* before the first get_next_job; once the loop runs it is never entered
\* again, and the lock is removed only by mark_job_complete or by the
\* expiry of its TTL, which moves nothing else.
C29_RecoveryAtStartup ==
  /\ [][wpc' \in ClearStates => wpc \in ClearStates \cup {"dead"}]_vars
  /\ [][wpc' = "poll" /\ wpc \in ClearStates => wpc = "clear_del"]_vars
  /\ [][LoopRuns /\ store.lock # NoJob /\ store'.lock = NoJob =>
          \/ wpc = "fin_lock" /\ wpc' = "fin_data"
          \/ wpc' = wpc /\ store' = [store EXCEPT !.lock = NoJob]]_vars

\* the loop runs its second job, whose lock has expired, while a third job
\* waits in the queue with its payload
C29_Witness ==
  /\ Len(dequeued) = 2
  /\ wpc \in BodyStates
  /\ store.lock = NoJob
  /\ \E j \in Jobs : j \in Range(store.queue) /\ j \in store.payload

\* the job body runs: process_queued_extraction has not returned
BodyRuns == wpc \in BodyStates \cup HandlerStates

\* C30: lock TTL expiry does not break serialization -- when the lock goes
\* away while a job body runs, the worker stays where it is in that body with
\* the same job, uncancelled, and as long as the body runs without the lock
\* nothing is dequeued and no other record is processing.
C30_ExpiryKeepsSerialization ==
  /\ [][BodyRuns /\ store.lock # NoJob /\ store'.lock = NoJob =>
          /\ wpc' = wpc
          /\ wjob' = wjob
          /\ cancelled' = cancelled
          /\ record' = record]_vars
  /\ [][BodyRuns /\ store.lock = NoJob =>
          /\ dequeued' = dequeued
          /\ wjob' = wjob
          /\ wpc' \in BusyStates]_vars
  /\ [](BodyRuns /\ store.lock = NoJob => Processing \subseteq {wjob})

\* the lock of the only job dequeued so far has expired during its LLM
\* call, and another job waits in the queue
C30_Witness ==
  /\ wpc = "b_llm"
  /\ store.lock = NoJob
  /\ dequeued = <<wjob>>
  /\ record[wjob] = "processing"
  /\ store.queue # <<>>
  /\ ~cancelled

\* C31: bounded extraction retry -- analyze_ocr_content makes at most
\* max_retries calls; when it has returned, the last call is the only one
\* that succeeded and its result is what was returned; when it has raised,
\* max_retries calls were made, all failed, and the error raised is that of
\* the last one.
C31_BoundedRetry ==
  /\ Len(ltrace) <= max_retries
  /\ lpc = "returned" =>
       /\ lres = LlmResult
       /\ ltrace[Len(ltrace)] = LlmResult
       /\ \A i \in 1..(Len(ltrace) - 1) : ltrace[i] \in LlmErrors
  /\ lpc = "raised" =>
       /\ Len(ltrace) = max_retries
       /\ \A i \in 1..max_retries : ltrace[i] \in LlmErrors
       /\ lres = ltrace[max_retries]

\* three calls failed with three different errors and the third was raised
C31_Witness ==
  /\ lpc = "raised"
  /\ Len(ltrace) = 3
  /\ ltrace[1] # ltrace[2] /\ ltrace[2] # ltrace[3] /\ ltrace[1] # ltrace[3]
  /\ lres = ltrace[3]

\* C32: no job is lost -- with the worker in its loop, no restart and every
\* job body terminating, every job added by enqueue_job is eventually
\* returned by get_next_job and its record eventually is completed or failed.
C32_NoJobLost ==
  \A j \in Jobs :
    (stage[j] = "queued") ~>
      (j \in Range(dequeued) /\ record[j] \in Terminal)

\* get_next_job returns None to the worker
ReturnsNone == wpc' = "sleep" /\ wpc \in {"poll", "gnj_pop", "gnj_get"}

\* C33: a None result changes nothing -- when get_next_job returns None
\* (lock present, queue empty or payload not found) the call has popped no
\* id and its returning step leaves the lock, the queue list and the
\* payloads as they were: no id leaves the queue without its payload being
\* returned.
C33_NoneChangesNothing ==
  [][ReturnsNone => wjob = NoJob /\ store' = store]_vars

\* C34: record before queue entry -- the submission commits the execution
\* before enqueue_job is called, so every id in the queue list has a
\* committed record whose status is pending.
C34_RecordBeforeQueue ==
  \A i \in 1..Len(store.queue) : record[store.queue[i]] = "pending"

\* two ids wait in the queue while the worker has moved the record of a
\* third one to processing
C34_Witness ==
  /\ Len(store.queue) = 2
  /\ wpc \in BodyStates
  /\ record[wjob] = "processing"
  /\ \A i \in 1..Len(store.queue) : record[store.queue[i]] = "pending"

\* the moves of the status stored under job:{id}
StatusMoves ==
  {<<"pending", "processing">>, <<"processing", "completed">>,
   <<"processing", "failed">>}

\* C35: monotonic LiveState status of a document job -- the stored status
\* only moves pending -> processing -> completed or failed; the write of
\* the step callback leaves it as it is, and no write changes it once it is
\* completed or failed.
C35_LiveStatusMonotonic ==
  [][/\ live'.status # live.status => <<live.status, live'.status>> \in StatusMoves
     /\ events' = events + 1 => live'.status = live.status
     /\ live.status \in Terminal => live'.status = live.status
    ]_vars

\* the job failed after the callback wrote its steps twice while the status
\* was processing
C35_Witness ==
  /\ live.status = "failed"
  /\ events >= 2
  /\ dpc = "done"

\* the worker task is cancelled while a job body is running
CancelInBody == cancelUsed' /\ ~cancelUsed /\ wpc \in BodyStates \cup HandlerStates

DoneEvents ==
  {StatusEvent("completed"), StatusEvent("failed"), ErrorEvent("Flow not found"),
   ErrorEvent("Execution not found"), ErrorEvent("Timeout waiting for completion")}

\* C37: the execution stream ends with one done event -- every run of
\* stream_execution_status yields exactly one event with "done": true, which
\* is its last event and is the completed or failed status, a flow or
\* execution not found error, or the timeout error, reached after at most
\* max_wait polls.
C37_OneDoneEvent ==
  /\ [](dones <= 1)
  /\ []((xpc = "closed") <=> (dones = 1))
  /\ []((xev # NoEvent /\ xev.done) <=> (xpc = "closed"))
  /\ [](xpc = "closed" => xev \in DoneEvents)
  /\ [](elapsed <= max_wait)
  /\ [](xev = ErrorEvent("Timeout waiting for completion") => elapsed = max_wait)
  /\ [][(xpc = "closed") => xev' = xev /\ dones' = dones /\ xpc' = xpc]_vars
  /\ (xpc = "poll") ~> (xpc = "closed")

\* the stream polled max_wait times without a terminal status and closed
\* with the timeout error
C37_Witness ==
  /\ xpc = "closed"
  /\ xev = ErrorEvent("Timeout waiting for completion")
  /\ elapsed = max_wait
  /\ dones = 1
  /\ record[XJob] = "processing"

\* C38: the stream waits for the creation of the job -- once the pending
\* placeholder has been yielded for a job without LiveState, the stream
\* stays in its poll loop for as long as the job is absent and yields no
\* error; the first event after the placeholder is the snapshot of the
\* created job.
C38_WaitsForCreation ==
  [][spc = "poll" /\ ev = Placeholder =>
       /\ ~known' => spc' = "poll" /\ ev' = Placeholder
       /\ ev' # Placeholder => known /\ ev' = Snapshot(live, "poll")
    ]_vars

\* C39: grouping is idempotent -- a second application of
\* _group_small_substeps to a completed step leaves the sub-step list, the
\* duration of the MACRO_STEP_NAME sub-step included, as the first
\* application left it.
C39_GroupingIdempotent ==
  [][dpc = "grouping" /\ events >= 1 /\ events' = events + 1 => steps' = steps]_vars

====
